---- MODULE Spec2Model ----
(***************************************************************************)
(* A model of werkzeug's sans-IO multipart/form-data parser                *)
(* (src/src/werkzeug/formparser.py) and of the containers it fills         *)
(* (src/src/werkzeug/datastructures.py).                                   *)
(*                                                                         *)
(* Bytes and text.  A byte string (and a str) is a sequence of atoms.  An  *)
(* atom is a TLA+ string standing for the bytes it spells: the bytes the   *)
(* code looks at one by one (CR, LF, space, tab, colon, semicolon, comma,  *)
(* equals, double quote, backslash) are atoms of their own, every other    *)
(* atom is a word that holds none of them.  A byte that is not printable   *)
(* ASCII, CR, LF or tab (base64 decoding gives such bytes), and the        *)
(* backquote, is an atom of three characters: a form feed and the byte's   *)
(* two hexadecimal digits, "\fb5" for 0xB5; no word holds a form feed.     *)
(* The transport may cut the body between any two atoms, in particular     *)
(* between the CR and the LF of one terminator.  len() of a byte string is *)
(* the sum of its atoms' lengths, one for a byte atom (ByteLen).           *)
(* Decoding ASCII bytes to str leaves the atoms as they are.               *)
(*                                                                         *)
(* Specifications.  Spec: calls of FormDataParser.parse on a stream;       *)
(* FairSpec: the same calls, with every enabled step taken; HeadersSpec:   *)
(* calls on a Headers instance; SplitterSpec: feeds of a LineSplitter,     *)
(* each a generator that its consumer resumes line by line or leaves;      *)
(* OmdSpec: calls on an OrderedMultiDict; SetSpec: calls on a HeaderSet;   *)
(* LinesSpec: parse_lines and a LineParser on the same lines.  The         *)
(* variables of the other specifications stay idle in each.                *)
(***************************************************************************)
EXTENDS Integers, Sequences, FiniteSets, TLC

CR == "\r"
LF == "\n"
SP == " "
TAB == "\t"
COLON == ":"
SEMI == ";"
EQ == "="
COMMA == ","
QUOTE == "\""
BACKSLASH == "\\"
DASHES == "--"

\* Python's None, where an optional str / bytes is expected: a one-atom
\* sequence that no line of the model's bodies holds.
None == <<"None">>

\* ---------------------------------------------------------------- helpers

Min(S) == CHOOSE x \in S : \A y \in S : x <= y
Max(S) == CHOOSE x \in S : \A y \in S : x >= y

RECURSIVE Concat(_)
\* b"".join(seqs)
Concat(seqs) ==
    IF seqs = <<>> THEN <<>> ELSE Head(seqs) \o Concat(Tail(seqs))

\* the atoms that are one byte by the code's own tests
OneByteAtoms == {CR, LF, SP, TAB, COLON, SEMI, EQ, COMMA, QUOTE, BACKSLASH}

\* whether an atom stands for one byte outside printable ASCII
IsByteAtom(a) == Len(a) = 3 /\ SubSeq(a, 1, 1) = "\f"

\* the number of bytes an atom spells
AtomLen(a) == IF IsByteAtom(a) THEN 1 ELSE Len(a)

RECURSIVE ByteLen(_)
\* len(b) of a byte string given as atoms
ByteLen(b) ==
    IF b = <<>> THEN 0
    ELSE IF Len(b) = 1 THEN AtomLen(b[1])
    ELSE ByteLen(SubSeq(b, 1, Len(b) \div 2))
         + ByteLen(SubSeq(b, Len(b) \div 2 + 1, Len(b)))

RECURSIVE Joined(_)
\* the bytes a sequence of atoms spells, as one string: two byte strings are
\* equal when these are, however they are cut into atoms
Joined(b) ==
    IF b = <<>> THEN "" ELSE Head(b) \o Joined(Tail(b))

Last(s) == s[Len(s)]
DropLast(s, n) == SubSeq(s, 1, Len(s) - n)
LastN(s, n) == SubSeq(s, IF Len(s) - n + 1 < 1 THEN 1 ELSE Len(s) - n + 1, Len(s))

\* the characters str.strip() / bytes.rstrip() remove, among the atoms
Whitespace == {SP, TAB, CR, LF}

RECURSIVE rstrip(_, _)
\* bytes.rstrip(chars) / str.rstrip(): drop trailing atoms that are in chars
rstrip(s, chars) ==
    IF s # <<>> /\ Last(s) \in chars THEN rstrip(DropLast(s, 1), chars) ELSE s

RECURSIVE lstrip(_, _)
lstrip(s, chars) ==
    IF s # <<>> /\ Head(s) \in chars THEN lstrip(Tail(s), chars) ELSE s

\* str.strip()
strip(s) == lstrip(rstrip(s, Whitespace), Whitespace)

\* str.lower() of one atom: the words of the model that hold capitals
LowerAtom(a) ==
    CASE a = "Content-Disposition" -> "content-disposition"
      [] a = "CONTENT-DISPOSITION" -> "content-disposition"
      [] a = "Content-Transfer-Encoding" -> "content-transfer-encoding"
      [] a = "Content-Type" -> "content-type"
      [] a = "X-Custom" -> "x-custom"
      [] a = "B" -> "b"
      [] OTHER -> a

\* str.lower()
lower(s) == [i \in 1..Len(s) |-> LowerAtom(s[i])]

\* -------------------------------------------------------- validate_boundary

\* buffer_size of MultiPartParser.__init__
buffer_size == 65536

\* is_valid_multipart_boundary(boundary): _multipart_boundary_re matches, that
\* is up to 200 characters from " " to "~" and then one from "!" to "~", with
\* at most one "\n" behind them
is_valid_multipart_boundary(boundary) ==
    LET b == IF boundary # <<>> /\ Last(boundary) = LF
             THEN DropLast(boundary, 1) ELSE boundary
    IN /\ b # <<>>
       /\ \A i \in 1..Len(b) : b[i] \notin {CR, LF, TAB}
       /\ Last(b) # SP
       /\ ByteLen(b) <= 201

\* MultiPartParser.validate_boundary(boundary): the message it fails with, ""
\* when it returns.  No function of the module calls it.
validate_boundary(boundary) ==
    IF boundary = None \/ boundary = <<>> THEN "Missing boundary"
    ELSE IF ~is_valid_multipart_boundary(boundary) THEN "Invalid boundary"
    ELSE IF ByteLen(boundary) > buffer_size THEN "Boundary longer than buffer size"
    ELSE ""

\* ------------------------------------------------------------ LineSplitter

\* index of the last atom of the first line of a non-empty buffer, as
\* bytes.splitlines(True) cuts it: after "\n", after "\r\n", after a lone "\r"
FirstLineEnd(b) ==
    LET T == {i \in 1..Len(b) : b[i] \in {CR, LF}} IN
    IF T = {} THEN Len(b)
    ELSE LET i == Min(T) IN
         IF b[i] = CR /\ i < Len(b) /\ b[i + 1] = LF THEN i + 1 ELSE i

RECURSIVE splitlines(_)
\* bytes.splitlines(True)
splitlines(b) ==
    IF b = <<>> THEN <<>>
    ELSE LET n == FirstLineEnd(b) IN
         <<SubSeq(b, 1, n)>> \o splitlines(SubSeq(b, n + 1, Len(b)))

\* line[-1:] in b"\r\n" (true of the empty line as well)
EndsInNewline(line) == line = <<>> \/ Last(line) \in {CR, LF}

\* LineSplitter.__init__
LineSplitter(cap) == [cap |-> cap, _leftover_buffer |-> <<>>]

\* the full pieces of cap atoms that the inner loop of _split_lines yields
\* for one line (a piece shorter than cap is not yielded)
CappedPieces(line, cap) ==
    [k \in 1..(Len(line) \div cap) |-> SubSeq(line, (k - 1) * cap + 1, k * cap)]

RECURSIVE SplitLoop(_, _, _, _)
\* the for loop of LineSplitter._split_lines over the lines still to come:
\* what it yields (b"" included), the _leftover_buffer the instance holds
\* while each of these yields is suspended (at), and the _leftover_buffer
\* it leaves when the loop has run to its end.
\* cap = 0 stands for cap=None (both are false in `if self.cap`).
SplitLoop(cap, lines, cap_buffer, leftover) ==
    IF lines = <<>> THEN [yields |-> <<>>, at |-> <<>>, leftover |-> leftover]
    ELSE LET line == Head(lines) IN
         IF cap # 0
         THEN LET capped == cap_buffer \o line
                  remainder == Len(capped) % cap
                  \* line[-remainder:], which is the whole line when remainder = 0
                  next_buffer == IF remainder = 0 THEN capped
                                 ELSE LastN(capped, remainder)
                  rest == SplitLoop(cap, Tail(lines), next_buffer, leftover)
              IN [yields |-> CappedPieces(capped, cap) \o rest.yields,
                  at |-> [k \in 1..(Len(capped) \div cap) |-> leftover] \o rest.at,
                  leftover |-> rest.leftover]
         ELSE IF EndsInNewline(line)
         THEN LET rest == SplitLoop(cap, Tail(lines), cap_buffer, leftover)
              IN [yields |-> <<line>> \o rest.yields,
                  at |-> <<leftover>> \o rest.at,
                  leftover |-> rest.leftover]
         ELSE \* self._leftover_buffer = line, then yield b""
              LET rest == SplitLoop(cap, Tail(lines), cap_buffer, line)
              IN [yields |-> << <<>> >> \o rest.yields,
                  at |-> <<line>> \o rest.at,
                  leftover |-> rest.leftover]

\* LineSplitter._split_lines(input_buffer)
split_lines(ls, input_buffer) ==
    SplitLoop(ls.cap, splitlines(input_buffer), <<>>, ls._leftover_buffer)

\* the `if line: yield line` filter of LineSplitter.feed
NonEmpty(lines) == SelectSeq(lines, LAMBDA l : l # <<>>)

\* the places of the yields of _split_lines that pass that filter
NonEmptyAt(yields) ==
    SelectSeq([i \in 1..Len(yields) |-> i], LAMBDA i : yields[i] # <<>>)

\* LineSplitter.feed once _split_lines has run over leftover + input: the
\* lines the generator yields to its consumer, the _leftover_buffer held
\* while each of them is suspended (at), and the splitter when the generator
\* has run to its end
Flushed(ls, input_buffer, split) ==
    [lines |-> (IF input_buffer = <<>> THEN <<ls._leftover_buffer>> ELSE <<>>)
               \o NonEmpty(split.yields),
     at |-> (IF input_buffer = <<>> THEN <<ls._leftover_buffer>> ELSE <<>>)
            \o [k \in 1..Len(NonEmptyAt(split.yields)) |->
                split.at[NonEmptyAt(split.yields)[k]]],
     splitter |-> [ls EXCEPT !._leftover_buffer = split.leftover]]

\* LineSplitter.feed(input_buffer), a generator: the lines it yields and the
\* splitter afterwards.  An empty input first yields the leftover as it is
\* (b"" too); then leftover + input is split, and _leftover_buffer changes
\* only where _split_lines assigns it, which is when the loop reaches a line
\* without a terminator: a consumer that stops at the line k leaves the
\* instance with at[k].
LineSplitter_feed(ls, input_buffer) ==
    Flushed(ls, input_buffer, split_lines(ls, ls._leftover_buffer \o input_buffer))

\* ------------------------------------------------------------------ Headers

\* Headers.__init__(defaults) for a list of (key, value) pairs: the pairs are
\* taken over by _list.extend, no value is looked at
Headers(defaults) == defaults

RECURSIVE Headers_getitem(_, _)
\* Headers.__getitem__(key, _get_mode=True): the value of the first pair whose
\* lower-cased key is key.lower(); None stands for the KeyError
Headers_getitem(list, key) ==
    IF list = <<>> THEN None
    ELSE IF lower(Head(list)[1]) = lower(key) THEN Head(list)[2]
    ELSE Headers_getitem(Tail(list), key)

\* Headers.get(key, default=None)
Headers_get(list, key) == Headers_getitem(list, key)

\* what a call of a Headers method leaves: the list, and the exception it
\* raised, "" for none
HeadersResult(list, raised) == [list |-> list, raised |-> raised, rv |-> <<>>]

\* a call that returned the value rv (kept as a list of one, the list of
\* none standing for a return of None or for a raise)
HeadersReturn(list, rv) == [list |-> list, raised |-> "", rv |-> <<rv>>]

\* Headers._validate_value(value): the exception raised, "" for none
validate_value(value) ==
    IF \E i \in 1..Len(value) : value[i] \in {LF, CR} THEN "ValueError" ELSE ""

\* Headers.add(_key, _value)
Headers_add(list, key, value) ==
    IF validate_value(value) # "" THEN HeadersResult(list, validate_value(value))
    ELSE HeadersResult(Append(list, <<key, value>>), "")

\* the index (from 1) at which the enumerate loop of Headers.set breaks: the
\* first pair whose lower-cased key is ikey; 0 when the loop runs to its else
FirstMatch(list, ikey) ==
    LET T == {i \in 1..Len(list) : lower(list[i][1]) = ikey}
    IN IF T = {} THEN 0 ELSE Min(T)

\* a set that removes every pair of the key and appends the new one
Headers_set_append(list, key, value) ==
    IF validate_value(value) # "" THEN HeadersResult(list, validate_value(value))
    ELSE HeadersResult(Append(SelectSeq(list, LAMBDA t : lower(t[1]) # lower(key)),
                              <<key, value>>), "")

\* Headers.set(_key, _value)
Headers_set(list, key, value) ==
    IF validate_value(value) # "" THEN HeadersResult(list, validate_value(value))
    ELSE IF list = <<>> THEN HeadersResult(Append(list, <<key, value>>), "")
    ELSE LET ikey == lower(key)
             idx == FirstMatch(list, ikey)
         IN IF idx = 0 THEN HeadersResult(Append(list, <<key, value>>), "")
            ELSE HeadersResult(
                     SubSeq(list, 1, idx - 1) \o << <<key, value>> >>
                     \o SelectSeq(SubSeq(list, idx + 1, Len(list)),
                                  LAMBDA t : lower(t[1]) # ikey),
                     "")

RECURSIVE Headers_extend(_, _)
\* Headers.extend(pairs): self.add for each pair in turn, up to the first
\* that raises
Headers_extend(list, pairs) ==
    IF pairs = <<>> THEN HeadersResult(list, "")
    ELSE IF Headers_add(list, Head(pairs)[1], Head(pairs)[2]).raised # ""
    THEN Headers_add(list, Head(pairs)[1], Head(pairs)[2])
    ELSE Headers_extend(Headers_add(list, Head(pairs)[1], Head(pairs)[2]).list,
                        Tail(pairs))

\* Headers.__setitem__(key, value) for a str key
Headers_setitem(list, key, value) == Headers_set(list, key, value)

\* Headers.__setitem__(key, value) for a slice key[start:stop] and a list of
\* pairs, 0 <= start <= stop <= len: every value is validated, then the
\* slice is assigned
Headers_setitem_slice(list, start, stop, pairs) ==
    IF \E i \in 1..Len(pairs) : validate_value(pairs[i][2]) # ""
    THEN HeadersResult(list, "ValueError")
    ELSE HeadersResult(SubSeq(list, 1, start) \o pairs
                       \o SubSeq(list, stop + 1, Len(list)), "")

\* Headers.__setitem__(key, value) for an int key, 0 <= key < len, and one pair
Headers_setitem_int(list, key, pair) ==
    IF validate_value(pair[2]) # "" THEN HeadersResult(list, "ValueError")
    ELSE HeadersResult([list EXCEPT ![key + 1] = pair], "")

\* a remove that deletes the first pair of the key only
Headers_remove_first(list, key) ==
    HeadersResult(
        IF FirstMatch(list, lower(key)) = 0 THEN list
        ELSE SubSeq(list, 1, FirstMatch(list, lower(key)) - 1)
             \o SubSeq(list, FirstMatch(list, lower(key)) + 1, Len(list)),
        "")

\* Headers.remove(key), that is __delitem__(key, _index_operation=False)
Headers_remove(list, key) ==
    HeadersResult(SelectSeq(list, LAMBDA t : lower(t[1]) # lower(key)), "")

\* a getlist that compares the keys as they are spelled
Headers_getlist_exact(list, key) ==
    LET hits == SelectSeq(list, LAMBDA t : t[1] = key)
    IN [i \in 1..Len(hits) |-> hits[i][2]]

\* Headers.getlist(key)
Headers_getlist(list, key) ==
    LET hits == SelectSeq(list, LAMBDA t : lower(t[1]) = lower(key))
    IN [i \in 1..Len(hits) |-> hits[i][2]]

\* Headers.__contains__(key)
Headers_contains(list, key) == Headers_getitem(list, key) # None

\* Headers.__iter__()
Headers_iter(list) == list

\* lowered(item) of Headers.__eq__
lowered(item) == <<lower(item[1]), item[2]>>

\* Headers.__eq__(other) for another Headers
Headers_eq(list, other) ==
    {lowered(other[i]) : i \in 1..Len(other)} = {lowered(list[i]) : i \in 1..Len(list)}

\* Headers.clear(): del self._list[:]
Headers_clear(list) == HeadersResult(<<>>, "")

\* Headers.__delitem__(key) for a str key: every pair of the key goes
Headers_delitem(list, key) ==
    HeadersResult(SelectSeq(list, LAMBDA t : lower(t[1]) # lower(key)), "")

\* Headers.__delitem__(key) for an int key >= 0: del self._list[key], which
\* raises IndexError past the end
Headers_delitem_int(list, key) ==
    IF key >= Len(list) THEN HeadersResult(list, "IndexError")
    ELSE HeadersResult(SubSeq(list, 1, key) \o SubSeq(list, key + 2, Len(list)), "")

\* Headers.__delitem__(key) for a slice key[start:stop],
\* 0 <= start <= stop <= len
Headers_delitem_slice(list, start, stop) ==
    HeadersResult(SubSeq(list, 1, start) \o SubSeq(list, stop + 1, Len(list)), "")

\* the default of Headers.pop that stands for no default
missing == <<"_missing">>

\* Headers.pop(key, default) for a str key: the first value of the key is
\* returned and every pair of the key removed; for a key that is absent
\* the default is returned, or the KeyError of __getitem__ raised when there
\* is none
Headers_pop(list, key, default) ==
    IF Headers_getitem(list, key) = None
    THEN IF default # missing THEN HeadersReturn(list, default)
         ELSE HeadersResult(list, "BadRequestKeyError")
    ELSE HeadersReturn(Headers_remove(list, key).list, Headers_getitem(list, key))

\* Headers.pop(key) for an int key >= 0: self._list.pop(key)
Headers_pop_int(list, key) ==
    IF key >= Len(list) THEN HeadersResult(list, "IndexError")
    ELSE HeadersReturn(SubSeq(list, 1, key) \o SubSeq(list, key + 2, Len(list)),
                       list[key + 1])

\* Headers.popitem(), that is pop() without a key: self._list.pop()
Headers_popitem(list) ==
    IF list = <<>> THEN HeadersResult(list, "IndexError")
    ELSE HeadersReturn(SubSeq(list, 1, Len(list) - 1), list[Len(list)])

RECURSIVE Headers_add_each(_, _, _)
\* `for value in values_iter: self.add(key, value)`, up to the first add
\* that raises: the values added before it stay
Headers_add_each(list, key, values) ==
    IF values = <<>> THEN HeadersResult(list, "")
    ELSE IF Headers_add(list, key, Head(values)).raised # ""
    THEN Headers_add(list, key, Head(values))
    ELSE Headers_add_each(Headers_add(list, key, Head(values)).list, key, Tail(values))

\* Headers.setlist(key, values): set for the first value and add for each
\* of the others, or remove when there is no value
Headers_setlist(list, key, values) ==
    IF values = <<>> THEN Headers_remove(list, key)
    ELSE IF Headers_set(list, key, Head(values)).raised # ""
    THEN Headers_set(list, key, Head(values))
    ELSE Headers_add_each(Headers_set(list, key, Head(values)).list, key, Tail(values))

\* Headers.setdefault(key, default)
Headers_setdefault(list, key, default) ==
    IF Headers_contains(list, key)
    THEN HeadersReturn(list, Headers_getitem(list, key))
    ELSE IF Headers_set(list, key, default).raised # ""
    THEN Headers_set(list, key, default)
    ELSE HeadersReturn(Headers_set(list, key, default).list, default)

\* Headers.setlistdefault(key, default)
Headers_setlistdefault(list, key, default) ==
    IF Headers_contains(list, key)
    THEN HeadersReturn(list, Headers_getlist(list, key))
    ELSE IF Headers_setlist(list, key, default).raised # ""
    THEN Headers_setlist(list, key, default)
    ELSE HeadersReturn(Headers_setlist(list, key, default).list,
                       Headers_getlist(Headers_setlist(list, key, default).list, key))

RECURSIVE Headers_update(_, _)
\* Headers.update(mapping) for an iterable of pairs: self.set for each pair
\* in turn, up to the first that raises
Headers_update(list, mapping) ==
    IF mapping = <<>> THEN HeadersResult(list, "")
    ELSE IF Headers_set(list, Head(mapping)[1], Head(mapping)[2]).raised # ""
    THEN Headers_set(list, Head(mapping)[1], Head(mapping)[2])
    ELSE Headers_update(Headers_set(list, Head(mapping)[1], Head(mapping)[2]).list,
                        Tail(mapping))

RECURSIVE Headers_setlist_each(_, _, _)
\* `for key in mapping.keys(): self.setlist(key, mapping.getlist(key))` over
\* the keys still to come, up to the first setlist that raises
Headers_setlist_each(list, keys, mapping) ==
    IF keys = <<>> THEN HeadersResult(list, "")
    ELSE IF Headers_setlist(list, Head(keys), Headers_getlist(mapping, Head(keys))).raised # ""
    THEN Headers_setlist(list, Head(keys), Headers_getlist(mapping, Head(keys)))
    ELSE Headers_setlist_each(
             Headers_setlist(list, Head(keys), Headers_getlist(mapping, Head(keys))).list,
             Tail(keys), mapping)

\* Headers.update(mapping) for another Headers: keys() gives the key of
\* every pair, a key that comes twice is set twice
Headers_update_headers(list, mapping) ==
    Headers_setlist_each(list, [i \in 1..Len(mapping) |-> mapping[i][1]], mapping)

\* Headers.add_header(_key, _value): self.add
Headers_add_header(list, key, value) == Headers_add(list, key, value)

\* ---------------------------------------------------- parse_options_header

\* a dict as a sequence of <<key, value>> pairs in insertion order
DictHas(d, k) == \E i \in 1..Len(d) : d[i][1] = k
DictGet(d, k) ==
    IF DictHas(d, k) THEN d[CHOOSE i \in 1..Len(d) : d[i][1] = k][2] ELSE None
DictSet(d, k, v) ==
    IF DictHas(d, k)
    THEN [i \in 1..Len(d) |-> IF d[i][1] = k THEN <<k, v>> ELSE d[i]]
    ELSE Append(d, <<k, v>>)

\* unquote_header_value(value): a value that starts and ends with a double
\* quote loses them (the model's quoted values hold no backslash)
unquote_header_value(value) ==
    IF value # <<>> /\ Head(value) = QUOTE /\ Last(value) = QUOTE
    THEN SubSeq(value, 2, Len(value) - 1)
    ELSE value

\* length of the longest prefix of s whose atoms all lie outside stop
PrefixLen(s, stop) ==
    LET T == {i \in 1..Len(s) : s[i] \in stop} IN
    IF T = {} THEN Len(s) ELSE Min(T) - 1

\* length of a quoted string "[^"]*" at the start of s, 0 if there is none
QuotedLen(s) ==
    IF s # <<>> /\ Head(s) = QUOTE /\ \E i \in 2..Len(s) : s[i] = QUOTE
    THEN Min({i \in 2..Len(s) : s[i] = QUOTE})
    ELSE 0

\* what one alternative "quoted string | token" of _option_header_piece_re
\* takes from the start of s; a token runs up to an atom of stop
PieceLen(s, stop) ==
    IF QuotedLen(s) > 0 THEN QuotedLen(s) ELSE PrefixLen(s, stop)

RECURSIVE OptionPieces(_, _)
\* the `while rest` loop of parse_options_header: one match of
\* _option_header_piece_re per round, options[option] = option_value
OptionPieces(rest, options) ==
    IF rest = <<>> \/ Head(rest) # SEMI THEN options
    ELSE LET r1 == lstrip(Tail(rest), Whitespace)
             r2 == IF r1 # <<>> /\ Head(r1) = COMMA
                   THEN lstrip(Tail(r1), Whitespace) ELSE r1
             klen == PieceLen(r2, Whitespace \cup {SEMI, COMMA, EQ})
         IN IF klen = 0 THEN options
            ELSE LET option == unquote_header_value(SubSeq(r2, 1, klen))
                     r3 == lstrip(SubSeq(r2, klen + 1, Len(r2)), Whitespace)
                     has_eq == r3 # <<>> /\ Head(r3) = EQ
                     r4 == IF has_eq THEN lstrip(Tail(r3), Whitespace) ELSE r3
                     vlen == IF has_eq THEN PieceLen(r4, {SEMI, COMMA}) ELSE 0
                     option_value ==
                         IF vlen = 0 THEN None
                         ELSE unquote_header_value(SubSeq(r4, 1, vlen))
                     r5 == lstrip(SubSeq(r4, vlen + 1, Len(r4)), Whitespace)
                 IN OptionPieces(r5, DictSet(options, option, option_value))

\* parse_options_header(value): (mimetype, options).  Newlines become commas,
\* _option_header_start_mime_type takes the mimetype, and the options are
\* read only when a ";" or "," with something behind it follows at once.
parse_options_header(value) ==
    IF value = <<>> \/ value = None THEN [mimetype |-> <<>>, options |-> <<>>]
    ELSE LET v == [i \in 1..Len(value) |->
                      IF value[i] = LF THEN COMMA ELSE value[i]]
             v1 == lstrip(v, Whitespace)
             mlen == PrefixLen(v1, Whitespace \cup {SEMI, COMMA})
             rest == SubSeq(v1, mlen + 1, Len(v1))
             has_rest == /\ rest # <<>>
                         /\ Head(rest) \in {SEMI, COMMA}
                         /\ Tail(rest) # <<>>
         IN IF mlen = 0 THEN [mimetype |-> <<>>, options |-> <<>>]
            ELSE [mimetype |-> SubSeq(v1, 1, mlen),
                  options |-> IF has_rest THEN OptionPieces(rest, <<>>)
                              ELSE <<>>]

\* ------------------------------------------------------------------- codecs

\* _supported_multipart_encodings
supported_multipart_encodings == {<<"base64">>, <<"quoted-printable">>}

\* MultiPartParser.get_part_encoding(headers)
get_part_encoding(headers) ==
    LET transfer_encoding == Headers_get(headers, <<"content-transfer-encoding">>)
    IN IF transfer_encoding # None
          /\ transfer_encoding \in supported_multipart_encodings
       THEN transfer_encoding
       ELSE None

\* the base64 alphabet, in the order of its values 0 .. 63
B64Alphabet ==
    "ABCDEFGHIJKLMNOPQRSTUVWXYZabcdefghijklmnopqrstuvwxyz0123456789+/"

\* Body(value), with value worked out once, before Body goes through it
Bind(value, Body(_)) == CHOOSE r \in {Body(v) : v \in {value}} : TRUE

\* what binascii.a2b_base64 makes of one character: its value in the
\* alphabet, 64 for the padding "=", -1 for a character it skips
B64Code(c) ==
    LET T == {i \in 1..64 : SubSeq(B64Alphabet, i, i) = c}
    IN IF c = "=" THEN 64 ELSE IF T = {} THEN -1 ELSE Min(T) - 1

\* the codes of the characters of s that are not skipped
B64Codes(s) ==
    SelectSeq([i \in 1..Len(s) |-> B64Code(SubSeq(s, i, i))], LAMBDA v : v >= 0)

\* the bytes of the characters of the alphabet that were read, by their
\* values: the first of a group of four gives none, each of the others gives
\* one with the bits left of the one before
B64Bytes(this) ==
    SelectSeq([k \in 1..Len(this) |->
                   IF k % 4 = 2 THEN (this[k - 1] * 4 + (this[k] \div 16)) % 256
                   ELSE IF k % 4 = 3
                   THEN ((this[k - 1] % 16) * 16 + (this[k] \div 4)) % 256
                   ELSE IF k % 4 = 0 THEN ((this[k - 1] % 4) * 64 + this[k]) % 256
                   ELSE -1],
              LAMBDA b : b >= 0)

\* where the loop of binascii.a2b_base64 over the codes ends, the length
\* and one if it reads them all: quad_pos is the place in its group of the
\* character read next; an "=" counts as padding once two characters of a
\* group are in, and the padding that completes the group (one "=" after
\* three characters, the second after two) ends the data, whatever follows
B64Stop(codes) ==
    LET quad_pos(i) == Cardinality({j \in 1..(i - 1) : codes[j] < 64}) % 4
        done == {i \in 1..Len(codes) :
                     /\ codes[i] = 64
                     /\ \/ quad_pos(i) = 3
                        \/ quad_pos(i) = 2 /\ codes[i - 1] = 64}
    IN IF done = {} THEN Len(codes) + 1 ELSE Min(done)

\* the loop over the codes: data that ends inside a group, with no padding
\* that completes it, raises binascii.Error, a ValueError
B64Groups(codes) ==
    Bind(SelectSeq(SubSeq(codes, 1, B64Stop(codes) - 1), LAMBDA v : v < 64),
         LAMBDA this : [ok |-> B64Stop(codes) <= Len(codes) \/ Len(this) % 4 = 0,
                        data |-> B64Bytes(this)])

\* binascii.a2b_base64(s), not strict: [ok, data] with the bytes as integers
a2b_base64(s) == Bind(B64Codes(s), B64Groups)

\* the printable ASCII characters from 32 (space) to 95 (_) and from 97 (a)
\* to 126 (~); a string of the model cannot hold 96, the backquote
ASCII32to95 ==
    " !\"#$%&'()*+,-./0123456789:;<=>?@ABCDEFGHIJKLMNOPQRSTUVWXYZ[\\]^_"
ASCII97to126 == "abcdefghijklmnopqrstuvwxyz{|}~"

HexDigits == "0123456789abcdef"

\* the atom of one byte
ByteAtom(n) ==
    IF n \in 32..95 THEN SubSeq(ASCII32to95, n - 31, n - 31)
    ELSE IF n \in 97..126 THEN SubSeq(ASCII97to126, n - 96, n - 96)
    ELSE IF n = 9 THEN TAB
    ELSE IF n = 10 THEN LF
    ELSE IF n = 13 THEN CR
    ELSE "\f" \o SubSeq(HexDigits, (n \div 16) + 1, (n \div 16) + 1)
              \o SubSeq(HexDigits, (n % 16) + 1, (n % 16) + 1)

\* whether an atom is a word, which a printable byte behind it extends
IsWord(a) == a \notin OneByteAtoms /\ ~IsByteAtom(a)

\* the atoms of a byte string given as the atoms of its bytes: the bytes that
\* are atoms of their own stay apart, the others run into words
Words(atom) ==
    LET \* the bytes at which an atom begins
        begins == {i \in 1..Len(atom) :
                       ~IsWord(atom[i]) \/ i = 1 \/ ~IsWord(atom[i - 1])}
        finish(i) == Min({j \in i..Len(atom) : j = Len(atom) \/ j + 1 \in begins})
    IN SelectSeq([i \in 1..Len(atom) |->
                      IF i \in begins THEN Joined(SubSeq(atom, i, finish(i))) ELSE ""],
                 LAMBDA a : a # "")

\* the atoms of a byte string given as integers
AtomsOf(bytes) == Bind([i \in 1..Len(bytes) |-> ByteAtom(bytes[i])], Words)

\* what base64.decodebytes made of s, in atoms
B64Decoded(s) ==
    [ok |-> a2b_base64(s).ok,
     data |-> IF a2b_base64(s).ok THEN AtomsOf(a2b_base64(s).data) ELSE <<>>]

\* base64_codec's decode(input), that is base64.decodebytes(input): [ok, data]
base64_decode(line) ==
    Bind(Joined(SelectSeq(line, LAMBDA a : ~IsByteAtom(a))), B64Decoded)

\* self._codec.decode(line): [ok, data], not ok when it raises ValueError.
\* base64_codec decodes as binascii.a2b_base64 does; quoted-printable drops a
\* soft line break (an "=" that ends the line, with its terminator) and keeps
\* every other byte of the model's lines, none of which holds an "=" before
\* two hexadecimal digits.
codec_decode(codec, line) ==
    IF codec = <<"base64_codec">> THEN base64_decode(line)
    ELSE LET body == rstrip(line, {CR, LF})
         IN IF body # <<>> /\ Last(body) = EQ
            THEN [ok |-> TRUE, data |-> DropLast(body, 1)]
            ELSE [ok |-> TRUE, data |-> line]

\* --------------------------------------------------------------- LineParser

\* ParseEnums
PRE_TERM == "PRE_TERM"
HEADERS == "HEADERS"
OUTPUT == "OUTPUT"
DONE == "DONE"

begin_form == "begin_form"
begin_file == "begin_file"
cont == "cont"
end == "end"

\* LineParser.__init__(parent, boundary); _name and _filename do not exist
\* before the first header block ends.  _headers holds the pairs of
\* self._headers and _headers_type its type: the list of __init__ and of a
\* continuation boundary, or the Headers object a blank line makes of it
LineParser(boundary) ==
    [boundary |-> boundary,
     _next_part |-> <<DASHES>> \o boundary,
     _last_part |-> <<DASHES>> \o boundary \o <<DASHES>>,
     _state_enum |-> PRE_TERM,
     _headers |-> <<>>,
     _headers_type |-> "list",
     _headers_only |-> FALSE,
     _tail |-> <<>>,
     _codec |-> None,
     _name |-> None,
     _filename |-> None]

\* what a state function hands back: the parser afterwards, the value it
\* returns (no element: None), and the type and the message of the exception
\* it raised, "" if none; parent.fail(message) raises ValueError(message)
Returned(lp, output) == [lp |-> lp, out |-> output, exc |-> "", fail |-> ""]
Threw(lp, type, message) == [lp |-> lp, out |-> <<>>, exc |-> type, fail |-> message]
Failed(lp, message) == Threw(lp, "ValueError", message)

\* the tuples a state function returns, and the bare line _state_done returns
Event(ellt, headers, name, filename, data) ==
    [py |-> "tuple", ellt |-> ellt, headers |-> headers, name |-> name,
     filename |-> filename, data |-> data]
Bytes(line) ==
    [py |-> "bytes", ellt |-> "", headers |-> <<>>, name |-> None,
     filename |-> None, data |-> line]

\* _line_parse(line): (stripped_line, is_terminated)
line_parse(line) ==
    IF LastN(line, 2) = <<CR, LF>> THEN [line |-> DropLast(line, 2), terminated |-> TRUE]
    ELSE IF line # <<>> /\ Last(line) \in {CR, LF}
    THEN [line |-> DropLast(line, 1), terminated |-> TRUE]
    ELSE [line |-> line, terminated |-> FALSE]

\* a _state_pre_term that skips every line
state_pre_term_skip(lp, line) ==
    Returned([lp EXCEPT !._state_enum = PRE_TERM], <<>>)

\* LineParser._state_pre_term(line)
state_pre_term(lp, line) ==
    IF line = <<>> THEN Failed(lp, "unexpected end of file")
    ELSE LET stripped == rstrip(line, {CR, LF}) IN
         IF stripped = <<>> THEN Returned([lp EXCEPT !._state_enum = PRE_TERM], <<>>)
         ELSE IF stripped = lp._last_part
         THEN Returned([lp EXCEPT !._state_enum = DONE], <<>>)
         ELSE IF stripped = lp._next_part
         THEN Returned([lp EXCEPT !._state_enum = HEADERS], <<>>)
         ELSE Failed(lp, "Expected boundary at start of multipart data")

\* str.split(":", 1): the index of the first colon, 0 if there is none
FirstColon(line) ==
    LET T == {i \in 1..Len(line) : line[i] = COLON} IN
    IF T = {} THEN 0 ELSE Min(T)

\* the end of LineParser._state_headers' blank-line branch, once the
\* Content-Disposition options (extra) and the part's transfer encoding are
\* known: the codec is set only when an encoding is declared, _name and
\* _filename are taken from extra, and the begin event is returned
BeginPart(lp, headers, extra, transfer_encoding) ==
    LET codec == IF transfer_encoding = None THEN lp._codec
                 ELSE IF transfer_encoding = <<"base64">> THEN <<"base64_codec">>
                 ELSE transfer_encoding
        name == DictGet(extra, <<"name">>)
        filename == DictGet(extra, <<"filename">>)
    IN Returned([lp EXCEPT !._codec = codec, !._name = name,
                           !._filename = filename, !._state_enum = OUTPUT],
                IF filename # None
                THEN <<Event(begin_file, headers, name, filename, <<>>)>>
                ELSE <<Event(begin_form, headers, name, None, <<>>)>>)

\* a blank-line branch that begins a part whether or not the header block
\* has a Content-Disposition header
HeadersEnd_lenient(lp, headers, disposition) ==
    BeginPart([lp EXCEPT !._headers = headers, !._headers_type = "Headers"], headers,
              parse_options_header(disposition).options,
              get_part_encoding(headers))

\* the blank-line branch of LineParser._state_headers for the finished
\* header list: self._headers is a Headers object from here on, whatever
\* follows; headers-only mode ends here, a block without
\* Content-Disposition fails, any other begins a part
HeadersEnd(lp, headers, disposition) ==
    LET made == [lp EXCEPT !._headers = headers, !._headers_type = "Headers"]
    IN IF lp._headers_only
       THEN Returned([made EXCEPT !._state_enum = DONE],
                     IF headers = <<>> THEN <<>>
                     ELSE <<[py |-> "Headers", ellt |-> "", headers |-> headers,
                             name |-> None, filename |-> None, data |-> <<>>]>>)
       ELSE IF disposition = None
       THEN Failed(made, "missing Content-Disposition header")
       ELSE BeginPart(made, headers,
                      parse_options_header(disposition).options,
                      get_part_encoding(headers))

\* LineParser._state_headers(line).  After a blank line that failed, the
\* state is still HEADERS and self._headers is a Headers object: its
\* __setitem__ validates the folded value, which holds the "\n" just put
\* into it, and it has no append.
state_headers(lp, line) ==
    LET parsed == line_parse(line)
        text == parsed.line
    IN IF ~parsed.terminated
       THEN Failed(lp, "unexpected end of line in multipart header")
       ELSE IF text = <<>>
       THEN HeadersEnd(lp, Headers(lp._headers),
                       Headers_get(Headers(lp._headers), <<"content-disposition">>))
       ELSE IF text[1] = TAB /\ lp._headers # <<>>
       THEN LET key == Last(lp._headers)[1]
                value == Last(lp._headers)[2]
                folded == <<key, value \o <<LF>> \o Tail(text)>>
                set == Headers_setitem_int(lp._headers, Len(lp._headers) - 1, folded)
            IN IF lp._headers_type = "list"
               THEN Returned([lp EXCEPT !._headers[Len(lp._headers)] = folded], <<>>)
               ELSE IF set.raised # ""
               THEN Threw(lp, set.raised,
                          "Detected newline in header value.  This is a potential security problem")
               ELSE Returned([lp EXCEPT !._headers = set.list], <<>>)
       ELSE LET c == FirstColon(text) IN
            IF c = 0 THEN Returned(lp, <<>>)
            ELSE IF lp._headers_type = "Headers"
            THEN Threw(lp, "AttributeError",
                       "'Headers' object has no attribute 'append'")
            ELSE Returned([lp EXCEPT !._headers =
                              Append(lp._headers,
                                     <<strip(SubSeq(text, 1, c - 1)),
                                       strip(SubSeq(text, c + 1, Len(text)))>>)],
                          <<>>)

\* the end of LineParser._state_output's content branch for the (decoded)
\* line: its terminator is held back in _tail, and the previous tail goes
\* out in front of the rest
EmitContent(lp, data) ==
    IF LastN(data, 2) = <<CR, LF>>
    THEN Returned([lp EXCEPT !._tail = LastN(data, 2)],
                  <<Event(cont, <<>>, None, None, lp._tail \o DropLast(data, 2))>>)
    ELSE IF EndsInNewline(data)
    THEN Returned([lp EXCEPT !._tail = LastN(data, 1)],
                  <<Event(cont, <<>>, None, None,
                          lp._tail \o (IF data = <<>> THEN <<>> ELSE DropLast(data, 1)))>>)
    ELSE Returned([lp EXCEPT !._tail = <<>>],
                  <<Event(cont, <<>>, None, None, lp._tail \o data)>>)

\* the codec step of the content branch, given what self._codec.decode did
Decoded(lp, decoded) ==
    IF ~decoded.ok THEN Failed(lp, "Could not decode transfer-encoded chunk")
    ELSE EmitContent(lp, decoded.data)

\* the content branch of LineParser._state_output
OutputContent(lp, line) ==
    IF lp._codec # None THEN Decoded(lp, codec_decode(lp._codec, line))
    ELSE EmitContent(lp, line)

\* LineParser._state_output(line)
state_output(lp, line) ==
    IF line = <<>> THEN Failed(lp, "Unexpected end of file")
    ELSE LET stripped_line == rstrip(line, Whitespace) IN
         IF stripped_line = lp._last_part
         THEN Returned([lp EXCEPT !._tail = <<>>, !._state_enum = DONE],
                       <<Event(end, <<>>, None, None, <<>>)>>)
         ELSE IF stripped_line = lp._next_part
         THEN Returned([lp EXCEPT !._tail = <<>>, !._headers = <<>>,
                                  !._headers_type = "list",
                                  !._state_enum = HEADERS],
                       <<Event(end, <<>>, None, None, <<>>)>>)
         ELSE OutputContent(lp, line)

\* a _state_done that starts the parser over instead of staying in DONE
state_done_restart(lp, line) == Returned([lp EXCEPT !._state_enum = PRE_TERM], <<>>)

\* LineParser._state_done(line): returns the line it was given
state_done(lp, line) == Returned(lp, <<Bytes(line)>>)

\* whether `if output:` lets a returned value through: None and an empty
\* bytes object are false, a tuple is true
Truthy(output) == output.py # "bytes" \/ output.data # <<>>

\* the `if output: yield output` of LineParser.feed
YieldIfTrue(r) == [r EXCEPT !.out = SelectSeq(r.out, Truthy)]

\* LineParser.feed(line): the state function of _state_enum, its output
\* yielded when it is true
LineParser_feed(lp, line) ==
    YieldIfTrue(CASE lp._state_enum = PRE_TERM -> state_pre_term(lp, line)
                  [] lp._state_enum = HEADERS -> state_headers(lp, line)
                  [] lp._state_enum = OUTPUT -> state_output(lp, line)
                  [] lp._state_enum = DONE -> state_done(lp, line))

\* ---------------------------------------------------------------- MultiDict

\* A MultiDict is a dict of lists: a sequence of <<key, values>> entries in
\* the order the keys were first inserted.

\* dict.setdefault(d, key, []).append(value)
SetdefaultAppend(d, key, value) ==
    IF DictHas(d, key)
    THEN [i \in 1..Len(d) |->
             IF d[i][1] = key THEN <<key, Append(d[i][2], value)>> ELSE d[i]]
    ELSE Append(d, <<key, <<value>> >>)

RECURSIVE MultiDict(_)
\* MultiDict.__init__(mapping) for an iterable of (key, value) pairs:
\* tmp.setdefault(key, []).append(value), pair by pair
MultiDict(pairs) ==
    IF pairs = <<>> THEN <<>>
    ELSE SetdefaultAppend(MultiDict(DropLast(pairs, 1)), Last(pairs)[1], Last(pairs)[2])

\* MultiDict.add(key, value)
MultiDict_add(d, key, value) == SetdefaultAppend(d, key, value)

\* MultiDict.getlist(key)
MultiDict_getlist(d, key) == IF DictHas(d, key) THEN DictGet(d, key) ELSE <<>>

\* MultiDict.__getitem__(key); None stands for the BadRequestKeyError
MultiDict_getitem(d, key) ==
    IF DictHas(d, key) /\ Len(DictGet(d, key)) > 0 THEN DictGet(d, key)[1] ELSE None

RECURSIVE MultiDict_items(_, _)
\* MultiDict.items(multi): key by key; with multi every value of the key,
\* else the key's first value
MultiDict_items(d, multi) ==
    IF d = <<>> THEN <<>>
    ELSE LET key == Head(d)[1]
             values == Head(d)[2]
         IN (IF multi THEN [i \in 1..Len(values) |-> <<key, values[i]>>]
             ELSE << <<key, values[1]>> >>)
            \o MultiDict_items(Tail(d), multi)

\* -------------------------------------------------- MultiPartParser.parse_parts

\* max_form_memory_size=None
NoLimit == -1

NoExc == [type |-> "", message |-> ""]
Exc(type, message) == [type |-> type, message |-> message]

\* int(headers["content-length"]) for the digit words of the model; every
\* other value, and a missing header, gives 0 (KeyError, ValueError)
content_length_of(headers) ==
    LET v == Headers_getitem(headers, <<"content-length">>) IN
    IF v = <<"5">> THEN 5 ELSE IF v = <<"1">> THEN 1 ELSE 0

\* a _fix_ie_filename that keeps every name as it is
fix_ie_filename_keep(filename) == filename

\* filename.split("\\")[-1]
AfterLastBackslash(filename) ==
    LET T == {i \in 1..Len(filename) : filename[i] = BACKSLASH} IN
    IF T = {} THEN filename ELSE SubSeq(filename, Max(T) + 1, Len(filename))

\* MultiPartParser._fix_ie_filename(filename): a Windows-like absolute path,
\* one whose second and third bytes are ":\" or whose first two are "\\",
\* loses its directories
fix_ie_filename(filename) ==
    IF \/ /\ Len(filename) >= 3
          /\ Len(filename[1]) = 1
          /\ filename[2] = COLON
          /\ filename[3] = BACKSLASH
       \/ /\ Len(filename) >= 2
          /\ filename[1] = BACKSLASH
          /\ filename[2] = BACKSLASH
    THEN AfterLastBackslash(filename)
    ELSE filename

\* MultiPartParser.start_file_streaming: the sink the stream factory returns
\* for these arguments, empty, open and at position 0
start_file_streaming(filename, headers) ==
    [filename |-> fix_ie_filename(filename),
     content_type |-> Headers_get(headers, <<"content-type">>),
     content_length |-> content_length_of(headers),
     data |-> <<>>, pos |-> 0, closed |-> FALSE]

\* the local variables of parse_parts before the loop (only in_memory exists
\* then; the others are shown with the values of a part never begun)
parse_parts_locals ==
    [in_memory |-> 0, is_file |-> FALSE, guard_memory |-> FALSE,
     container |-> <<>>, sink |-> 0, headers |-> <<>>, name |-> None,
     filename |-> None]

\* The state one run of parse_parts works on.  log is the history of the
\* calls of LineParser.feed: the state it was in, the line, what it yielded
\* and the message it failed with.
ParseState(ls, lp, mx) ==
    [line_splitter |-> ls, line_parser |-> lp, max_form_memory_size |-> mx,
     locals |-> parse_parts_locals, sinks |-> <<>>, parts |-> <<>>,
     log |-> <<>>, exc |-> NoExc]

\* the body of `for ellt, ell in line_parser.feed(line)` for one yielded value
HandleOutput(st, o) ==
    IF o.py = "bytes"
    THEN \* `ellt, ell = line`: two bytes unpack to two ints, which match no
         \* branch; any other length raises ValueError
         IF ByteLen(o.data) = 2 THEN st
         ELSE [st EXCEPT !.exc = Exc("ValueError",
                  IF ByteLen(o.data) > 2 THEN "too many values to unpack"
                  ELSE "not enough values to unpack")]
    ELSE IF o.ellt = begin_file
    THEN [st EXCEPT !.locals.headers = o.headers, !.locals.name = o.name,
                    !.locals.is_file = TRUE, !.locals.guard_memory = FALSE,
                    !.locals.filename = fix_ie_filename(o.filename),
                    !.sinks = Append(st.sinks,
                                     start_file_streaming(o.filename, o.headers)),
                    !.locals.sink = Len(st.sinks) + 1]
    ELSE IF o.ellt = begin_form
    THEN [st EXCEPT !.locals.headers = o.headers, !.locals.name = o.name,
                    !.locals.is_file = FALSE, !.locals.container = <<>>,
                    !.locals.guard_memory = (st.max_form_memory_size # NoLimit)]
    ELSE IF o.ellt = cont
    THEN LET written ==
                 IF st.locals.is_file
                 THEN [st EXCEPT !.sinks[st.locals.sink].data = @ \o o.data,
                                 !.sinks[st.locals.sink].pos = @ + ByteLen(o.data)]
                 ELSE [st EXCEPT !.locals.container = Append(@, o.data)]
             in_memory == st.locals.in_memory + ByteLen(o.data)
         IN IF ~st.locals.guard_memory THEN written
            ELSE IF in_memory > st.max_form_memory_size
            THEN [written EXCEPT !.locals.in_memory = in_memory,
                                 !.exc = Exc("RequestEntityTooLarge", "")]
            ELSE [written EXCEPT !.locals.in_memory = in_memory]
    ELSE \* end
         IF st.locals.is_file
         THEN [st EXCEPT !.sinks[st.locals.sink].pos = 0,
                         !.parts = Append(@,
                             [kind |-> "file", name |-> st.locals.name,
                              value |-> <<>>, stream |-> st.locals.sink,
                              filename |-> st.locals.filename,
                              headers |-> st.locals.headers])]
         ELSE [st EXCEPT !.parts = Append(@,
                             [kind |-> "form", name |-> st.locals.name,
                              value |-> Concat(st.locals.container),
                              stream |-> 0, filename |-> None,
                              headers |-> st.locals.headers])]

\* one round of `for line in line_splitter.feed(buffer)` once
\* LineParser.feed(line) has given r: what it raises ends the loop, a yielded
\* value is handled
Fed(st, line, r) ==
    IF r.fail # ""
    THEN [st EXCEPT !.line_parser = r.lp,
                    !.log = Append(@, [state |-> st.line_parser._state_enum,
                                       line |-> line, out |-> r.out,
                                       fail |-> r.fail]),
                    !.exc = Exc(r.exc, r.fail)]
    ELSE IF r.out = <<>>
    THEN [st EXCEPT !.line_parser = r.lp,
                    !.log = Append(@, [state |-> st.line_parser._state_enum,
                                       line |-> line, out |-> r.out,
                                       fail |-> r.fail])]
    ELSE HandleOutput([st EXCEPT !.line_parser = r.lp,
                                 !.log = Append(@, [state |-> st.line_parser._state_enum,
                                                    line |-> line, out |-> r.out,
                                       fail |-> r.fail])],
                      r.out[1])

\* one round of `for line in line_splitter.feed(buffer)`
FeedLine(st, line) == Fed(st, line, LineParser_feed(st.line_parser, line))

RECURSIVE FeedLines(_, _, _)
\* `for line in line_splitter.feed(buffer)` from the line k on: the
\* generator is resumed for one line at a time, so the line parser sees the
\* line k while the splitter holds fed.at[k]; an exception ends the loop
\* and leaves the generator where it is, and the splitter is as feed leaves
\* it only when every line has been taken
FeedLines(st, fed, k) ==
    IF st.exc # NoExc THEN st
    ELSE IF k > Len(fed.lines) THEN [st EXCEPT !.line_splitter = fed.splitter]
    ELSE FeedLines(FeedLine([st EXCEPT !.line_splitter._leftover_buffer = fed.at[k]],
                            fed.lines[k]),
                   fed, k + 1)

\* one round of `while True` in parse_parts after file.read returned buffer
ParseLines(st, fed) == FeedLines(st, fed, 1)
ParseBlock(st, buffer) == ParseLines(st, LineSplitter_feed(st.line_splitter, buffer))

\* MultiPartParser.parse after parse_parts is exhausted: the 'form' and the
\* 'file' results go to one container each
OfKind(parts, kind) == SelectSeq(parts, LAMBDA p : p.kind = kind)
\* form = (p[1] for p in formstream if p[0] == "form")
form_pairs(parts) ==
    [i \in 1..Len(OfKind(parts, "form")) |->
        <<OfKind(parts, "form")[i].name, OfKind(parts, "form")[i].value>>]
\* files = (p[1] for p in filestream if p[0] == "file"); each value is the
\* FileStorage of the part, shown with its sink as it is when parse returns
file_pairs(parts, sinks) ==
    [i \in 1..Len(OfKind(parts, "file")) |->
        <<OfKind(parts, "file")[i].name,
          [stream |-> sinks[OfKind(parts, "file")[i].stream],
           filename |-> OfKind(parts, "file")[i].filename,
           name |-> OfKind(parts, "file")[i].name,
           headers |-> OfKind(parts, "file")[i].headers]>>]
parse_form(parts) == MultiDict(form_pairs(parts))
parse_files(parts, sinks) == MultiDict(file_pairs(parts, sinks))

\* how a call ended: still running, returned (form, files) or raised exc
Pending == [status |-> "pending", form |-> <<>>, files |-> <<>>, exc |-> NoExc]
ReturnedMaps(form, files) ==
    [status |-> "returned", form |-> form, files |-> files, exc |-> NoExc]
Raised(exc) == [status |-> "raised", form |-> <<>>, files |-> <<>>, exc |-> exc]

\* MultiPartParser.parse(file, boundary, content_length), seen from its
\* caller once parse_parts has stopped in state st: cls(form) and cls(files)
\* run the generator to its end, so an exception of parse_parts leaves parse
\* and no container is returned
MultiPartParser_parse(st) ==
    IF st.exc # NoExc THEN Raised(st.exc)
    ELSE ReturnedMaps(parse_form(st.parts), parse_files(st.parts, st.sinks))

\* content_length=None
NoLength == -1

\* a ceiling test that lets every length through
over_content_length_never(ceiling, length) == FALSE

\* the ceiling test at the head of FormDataParser.parse
over_content_length(ceiling, length) ==
    ceiling # NoLimit /\ length # NoLength /\ length > ceiling

\* FormDataParser.get_parse_func(mimetype, options) for the mimetypes of the
\* model: "multipart/form-data" has _parse_multipart, a mimetype that is not
\* in parse_functions has None (the two url-encoded mimetypes, whose parse
\* function is outside this model, are no mimetype of its calls)
get_parse_func(type) ==
    IF type = "multipart/form-data" THEN <<"_parse_multipart">> ELSE None

\* an exhaust_stream that leaves the stream as it is
exhaust_stream_skip(stream) == stream

RECURSIVE exhaust_stream(_)
\* the finally clause of exhaust_stream, which runs however the parse
\* function ended: stream.exhaust(), or stream.read(1024 * 64) until it
\* returns b""; what is left of the stream after it
exhaust_stream(stream) ==
    IF stream = <<>> THEN stream ELSE exhaust_stream(Tail(stream))

\* a FormDataParser.parse that lets every outcome through
FormDataParser_parse_loud(outcome, is_silent) == outcome

\* FormDataParser.parse around the parse function: a ValueError is swallowed
\* when silent and two empty containers are returned; anything else comes
\* through as it is
FormDataParser_parse(outcome, is_silent) ==
    IF outcome.status = "raised" /\ outcome.exc.type = "ValueError" /\ is_silent
    THEN ReturnedMaps(<<>>, <<>>)
    ELSE outcome

\* ------------------------------------------------------------------- inputs

BoundaryB == <<"B">>

NextLine == <<DASHES, "B", CR, LF>>
LastLine == <<DASHES, "B", DASHES, CR, LF>>
LastLineLF == <<DASHES, "B", DASHES, LF>>
LastLineBare == <<DASHES, "B", DASHES>>
BlankLine == <<CR, LF>>

FormHeader(name) ==
    <<"Content-Disposition", COLON, SP, "form-data", SEMI, SP, "name", EQ, name,
      CR, LF>>
FileHeader(name, filename) ==
    <<"content-disposition", COLON, SP, "form-data", SEMI, SP, "name", EQ, name,
      SEMI, SP, "filename", EQ, QUOTE, filename, QUOTE, CR, LF>>
\* Content-Disposition lines whose filename parameter is a Windows-like
\* absolute path, and whose filename parameter has no value
WindowsFileHeader ==
    <<"Content-Disposition", COLON, SP, "form-data", SEMI, SP, "name", EQ, "w",
      SEMI, SP, "filename", EQ, "C", COLON, BACKSLASH, "d", BACKSLASH, "f",
      CR, LF>>
BareFilenameHeader ==
    <<"Content-Disposition", COLON, SP, "form-data", SEMI, SP, "name", EQ, "n",
      SEMI, SP, "filename", CR, LF>>
\* Content-Disposition lines whose filename parameter holds a backslash
\* without being such a path, and is a path that begins with two backslashes
RelativeFileHeader ==
    <<"Content-Disposition", COLON, SP, "form-data", SEMI, SP, "name", EQ, "r",
      SEMI, SP, "filename", EQ, "d", BACKSLASH, "f", CR, LF>>
UncFileHeader ==
    <<"Content-Disposition", COLON, SP, "form-data", SEMI, SP, "name", EQ, "u",
      SEMI, SP, "filename", EQ, BACKSLASH, BACKSLASH, "h", BACKSLASH, "g",
      CR, LF>>
CustomHeader == <<"X-Custom", COLON, SP, "line1", CR, LF>>
FoldedSpace == <<SP, "line2", CR, LF>>
FoldedTab == <<TAB, "line2", CR, LF>>

\* the header blocks of a part (the blank line that ends one not included)
HeaderBlocks ==
    {FormHeader("a"), FileHeader("a", "f"),
     FormHeader("a") \o CustomHeader \o FoldedSpace,
     FileHeader("a", "f") \o CustomHeader \o FoldedTab,
     CustomHeader}

\* the body lines of a part, the terminator before the boundary included
Contents ==
    {<<>>, <<"hello", CR, LF>>, <<"hello", CR, LF, "hi", CR, LF>>,
     <<"hello", LF>>, <<"hello", CR, LF, CR, LF>>}

Preambles == {<<>>, BlankLine}
Closings == {LastLine, LastLineLF, LastLineBare, <<>>, <<"tail">>}
Epilogues == {<<>>, BlankLine, <<"xyz", CR, LF>>}

\* the most parts a body of several parts has
MaxParts == 3

\* the parts such a body is encoded from: form fields, two of one name, and
\* files
PartSpecs ==
    {[kind |-> "form", name |-> "a", filename |-> "", content |-> "1"],
     [kind |-> "form", name |-> "b", filename |-> "", content |-> "2"],
     [kind |-> "form", name |-> "a", filename |-> "", content |-> "3"],
     [kind |-> "file", name |-> "a", filename |-> "f", content |-> "4"],
     [kind |-> "file", name |-> "b", filename |-> "g", content |-> "5"]}

\* the bytes of one part: the boundary line, the header block, the blank
\* line, and the content with the terminator that precedes the next boundary
EncodePart(p) ==
    NextLine
    \o (IF p.kind = "file" THEN FileHeader(p.name, p.filename) ELSE FormHeader(p.name))
    \o BlankLine \o <<p.content, CR, LF>>

\* the well-formed body of a sequence of parts
EncodeBody(ps) == Concat([i \in 1..Len(ps) |-> EncodePart(ps[i])]) \o LastLine

\* the sequences of 2..MaxParts parts
PartLists == UNION {[1..n -> PartSpecs] : n \in 2..MaxParts}

\* bodies that differ in how they begin and end, around no part, one form
\* part or one file part
FramingBodies ==
    {pre \o part \o closing \o epi :
        pre \in Preambles,
        part \in {<<>>,
                  NextLine \o FormHeader("a") \o BlankLine \o <<"hello", CR, LF>>,
                  NextLine \o FileHeader("a", "f") \o BlankLine \o <<"hello", CR, LF>>},
        closing \in Closings, epi \in Epilogues}

\* bodies of one part that differ in its headers and its content
PartBodies ==
    {NextLine \o h \o BlankLine \o c \o LastLine : h \in HeaderBlocks, c \in Contents}

\* the part of FramingBodies whose only non-blank line is the terminal
\* boundary line
DegenerateBodies ==
    {pre \o closing : pre \in Preambles,
                      closing \in {LastLine, LastLineLF, LastLineBare}}

\* bodies for the calls with another boundary parameter: nothing, the
\* terminal line of the empty boundary and of the boundary "B ", and one part
OddBoundaryBodies ==
    {<<>>, <<DASHES, DASHES, CR, LF>>, <<DASHES, "B", SP, DASHES, CR, LF>>,
     NextLine \o FormHeader("a") \o BlankLine \o <<"hello", CR, LF>> \o LastLine}

\* a Content-Transfer-Encoding header line
TransferHeader(encoding) ==
    <<"Content-Transfer-Encoding", COLON, SP, encoding, CR, LF>>

\* what a part may declare: nothing, the two supported encodings, another one
TransferHeaders ==
    {<<>>, TransferHeader("base64"), TransferHeader("quoted-printable"),
     TransferHeader("7bit")}

\* one content line: a padded base64 group, and a word that is not base64
TransferContents == {<<"aGk", EQ, CR, LF>>, <<"hello", CR, LF>>}

\* bodies of two form fields, each with its own declaration and content
TransferBodies ==
    {NextLine \o FormHeader("a") \o t1 \o BlankLine \o c1
     \o NextLine \o FormHeader("b") \o t2 \o BlankLine \o c2 \o LastLine :
        t1 \in TransferHeaders, c1 \in TransferContents,
        t2 \in TransferHeaders, c2 \in TransferContents}

\* the mimetypes of the calls: the multipart one and one without a parse
\* function
Mimetypes == {"multipart/form-data", "text/plain"}

\* the ceiling on the declared content length, in bytes
ContentCeiling == 10

\* bodies shorter and longer than the ceiling: nothing, the terminal boundary
\* line, and one part
DispatchBodies ==
    {<<>>, LastLine,
     NextLine \o FormHeader("a") \o BlankLine \o <<"hello", CR, LF>> \o LastLine}

\* boundary lines with a space or a tab between the token and the CRLF
PaddedNextLine == <<DASHES, "B", SP, CR, LF>>
PaddedLastLine == <<DASHES, "B", DASHES, TAB, CR, LF>>

\* one-part bodies whose content holds such a line, followed by a content
\* line or by what reads as the headers of a part
PaddedBoundaryBodies ==
    {NextLine \o FormHeader("a") \o BlankLine \o <<"x", CR, LF>> \o padded
         \o rest \o LastLine :
     padded \in {PaddedNextLine, PaddedLastLine},
     rest \in {<<"y", CR, LF>>,
               FormHeader("b") \o BlankLine \o <<"y", CR, LF>>}}

\* two-part bodies whose parts are a form field, a file, a file named by a
\* Windows-like absolute path, or a part whose filename parameter has no
\* value; and a body of three files: one named by a drive path, one by a
\* name that holds a backslash, one by a path that begins with two backslashes
SinkBodies ==
    {NextLine \o h1 \o BlankLine \o <<"x", CR, LF>>
         \o NextLine \o h2 \o BlankLine \o <<"hello", CR, LF, "y", CR, LF>>
         \o LastLine :
     h1, h2 \in {FormHeader("a"), FileHeader("b", "f"), WindowsFileHeader,
                 BareFilenameHeader}}
    \cup {NextLine \o WindowsFileHeader \o BlankLine \o <<"x", CR, LF>>
          \o NextLine \o RelativeFileHeader \o BlankLine \o <<"hello", CR, LF>>
          \o NextLine \o UncFileHeader \o BlankLine \o <<"y", CR, LF>>
          \o LastLine}

\* the header lines and the one-line contents of the parts of the bodies
\* parsed under the memory ceiling: a form field or a file, of 2, 5 or 7
\* bytes
MemoryHeaders == {FormHeader("a"), FileHeader("b", "f")}
MemoryContents == {"hi", "hello", "toolong"}

\* the body of two such parts
MemoryBody(h1, c1, h2, c2) ==
    NextLine \o h1 \o BlankLine \o <<c1, CR, LF>>
    \o NextLine \o h2 \o BlankLine \o <<c2, CR, LF>> \o LastLine
MemoryBodies ==
    {MemoryBody(h1, c1, h2, c2) :
     h1 \in MemoryHeaders, c1 \in MemoryContents,
     h2 \in MemoryHeaders, c2 \in MemoryContents}

\* the short reads (blocks that end before the stream does) of one call
MaxCuts == 1

\* the boundary parameter: a valid token, the empty one, one ending in a
\* space (not a valid boundary), and none at all
Boundaries == {BoundaryB, <<>>, <<"B", SP>>, None}

\* the ceiling on in-memory form data a caller sets
MemoryLimit == 5

\* ------------------------------------------------------- OrderedMultiDict

\* None where a reference to a bucket is held
NoBucket == 0

\* OrderedMultiDict(): an empty dict and both ends None.  dict holds the
\* entries of the underlying dict in insertion order, as dict keeps them, each
\* a key with its list of buckets; buckets holds every _omd_bucket made so
\* far, and a reference to a bucket is its index there.  An entry that
\* dict.__ior__ has stored holds the value it was given instead of a list of
\* buckets: raw is that value in a list of one, and the empty list for an
\* entry of the class's own methods.
OrderedMultiDict ==
    [dict |-> <<>>, _first_bucket |-> NoBucket, _last_bucket |-> NoBucket,
     buckets |-> <<>>]

\* key in self
dict_contains(d, key) == \E i \in 1..Len(d) : d[i].key = key

\* dict.__getitem__(self, key) for a key that is there
dict_getitem(d, key) == d[CHOOSE i \in 1..Len(d) : d[i].key = key].buckets

\* whether the dict holds, for key, a value that is not a list of buckets
dict_holds_raw(d, key) == \E i \in 1..Len(d) : d[i].key = key /\ d[i].raw # <<>>

\* dict.__setitem__(self, key, value): the entry of a key that is there
\* keeps its place
dict_setitem(d, key, value) ==
    IF dict_contains(d, key)
    THEN [i \in 1..Len(d) |->
          IF d[i].key = key THEN [key |-> key, buckets |-> <<>>, raw |-> <<value>>]
          ELSE d[i]]
    ELSE Append(d, [key |-> key, buckets |-> <<>>, raw |-> <<value>>])

\* dict.pop(self, key, ()): the entries that stay
dict_pop(d, key) == SelectSeq(d, LAMBDA e : e.key # key)

\* dict.setdefault(self, key, []).append(bucket)
dict_setdefault_append(d, key, bucket) ==
    IF dict_contains(d, key)
    THEN [i \in 1..Len(d) |->
          IF d[i].key = key THEN [d[i] EXCEPT !.buckets = Append(@, bucket)]
          ELSE d[i]]
    ELSE Append(d, [key |-> key, buckets |-> <<bucket>>, raw |-> <<>>])

\* _omd_bucket(omd, key, value): the new bucket goes behind _last_bucket
omd_bucket(o, key, value) ==
    [o EXCEPT
     !.buckets =
         LET made == Append(@, [prev |-> o._last_bucket, key |-> key,
                                value |-> value, next |-> NoBucket])
         IN IF o._last_bucket # NoBucket
            THEN [made EXCEPT ![o._last_bucket].next = Len(made)]
            ELSE made,
     !._first_bucket = IF @ = NoBucket THEN Len(o.buckets) + 1 ELSE @,
     !._last_bucket = Len(o.buckets) + 1]

\* _omd_bucket.unlink(omd) that leaves the neighbours of the bucket as they are
unlink_ends_only(o, self) ==
    [o EXCEPT
     !._first_bucket = IF @ = self THEN o.buckets[self].next ELSE @,
     !._last_bucket = IF @ = self THEN o.buckets[self].prev ELSE @]

\* _omd_bucket.unlink(omd)
unlink(o, self) ==
    [o EXCEPT
     !.buckets =
         LET prev == @[self].prev
             next == @[self].next
             before == IF prev # NoBucket THEN [@ EXCEPT ![prev].next = next]
                       ELSE @
         IN IF next # NoBucket THEN [before EXCEPT ![next].prev = prev]
            ELSE before,
     !._first_bucket = IF @ = self THEN o.buckets[self].next ELSE @,
     !._last_bucket = IF @ = self THEN o.buckets[self].prev ELSE @]

RECURSIVE unlink_each(_, _)
\* for bucket in buckets: bucket.unlink(self)
unlink_each(o, buckets) ==
    IF buckets = <<>> THEN o
    ELSE unlink_each(unlink(o, Head(buckets)), Tail(buckets))

\* [x.value for x in buckets]
bucket_values(o, buckets) == [i \in 1..Len(buckets) |-> o.buckets[buckets[i]].value]

\* what a call gives: the dict afterwards, the value returned, the exception
OmdResult(o, rv, raised) == [omd |-> o, rv |-> rv, raised |-> raised]

\* OrderedMultiDict.add: a value that is no list has no append, and the
\* bucket is made only once append has been looked up
OrderedMultiDict_add(o, key, value) ==
    IF dict_holds_raw(o.dict, key) THEN OmdResult(o, <<>>, "AttributeError")
    ELSE OmdResult([omd_bucket(o, key, value) EXCEPT
                    !.dict = dict_setdefault_append(@, key, Len(o.buckets) + 1)],
                   <<>>, "")

RECURSIVE add_each(_, _, _)
\* for value in new_list: self.add(key, value)
add_each(o, key, new_list) ==
    IF new_list = <<>> THEN OmdResult(o, <<>>, "")
    ELSE IF OrderedMultiDict_add(o, key, Head(new_list)).raised # ""
    THEN OrderedMultiDict_add(o, key, Head(new_list))
    ELSE add_each(OrderedMultiDict_add(o, key, Head(new_list)).omd, key,
                  Tail(new_list))

\* OrderedMultiDict.poplist: the key has left the dict when the loop over
\* what dict.pop gave begins, which raises TypeError for a value that is no
\* list
OrderedMultiDict_poplist(o, key) ==
    IF dict_holds_raw(o.dict, key)
    THEN OmdResult([o EXCEPT !.dict = dict_pop(@, key)], <<>>, "TypeError")
    ELSE IF dict_contains(o.dict, key)
    THEN OmdResult(unlink_each([o EXCEPT !.dict = dict_pop(@, key)],
                               dict_getitem(o.dict, key)),
                   bucket_values(o, dict_getitem(o.dict, key)), "")
    ELSE OmdResult(o, <<>>, "")

\* OrderedMultiDict.pop without a default
OrderedMultiDict_pop(o, key) ==
    IF dict_holds_raw(o.dict, key)
    THEN OmdResult([o EXCEPT !.dict = dict_pop(@, key)], <<>>, "TypeError")
    ELSE IF dict_contains(o.dict, key)
    THEN OmdResult(unlink_each([o EXCEPT !.dict = dict_pop(@, key)],
                               dict_getitem(o.dict, key)),
                   <<o.buckets[Head(dict_getitem(o.dict, key))].value>>, "")
    ELSE OmdResult(o, <<>>, "BadRequestKeyError")

\* OrderedMultiDict.pop(key, default): the default is returned for a key
\* that is absent
OrderedMultiDict_pop_default(o, key, default) ==
    IF dict_contains(o.dict, key) THEN OrderedMultiDict_pop(o, key)
    ELSE OmdResult(o, <<default>>, "")

\* OrderedMultiDict.__delitem__
OrderedMultiDict_delitem(o, key) ==
    [OrderedMultiDict_pop(o, key) EXCEPT !.rv = <<>>]

\* OrderedMultiDict.__setitem__: self.poplist(key), then self.add(key, value)
OrderedMultiDict_setitem(o, key, value) ==
    IF OrderedMultiDict_poplist(o, key).raised # ""
    THEN [OrderedMultiDict_poplist(o, key) EXCEPT !.rv = <<>>]
    ELSE OrderedMultiDict_add(OrderedMultiDict_poplist(o, key).omd, key, value)

\* None as a value of the dict, the default of setdefault
NoValue == 0

\* MultiDict.setdefault, which OrderedMultiDict inherits: self[key] = default
\* for a key that is absent, the first value of the key otherwise, which
\* __getitem__ takes by subscript from what the dict holds
OrderedMultiDict_setdefault(o, key, default) ==
    IF ~dict_contains(o.dict, key)
    THEN OmdResult(OrderedMultiDict_setitem(o, key, default).omd, <<default>>, "")
    ELSE IF dict_holds_raw(o.dict, key) THEN OmdResult(o, <<>>, "TypeError")
    ELSE OmdResult(o, <<o.buckets[Head(dict_getitem(o.dict, key))].value>>, "")

\* OrderedMultiDict.setlistdefault
OrderedMultiDict_setlistdefault(o, key, default_list) == OmdResult(o, <<>>, "TypeError")

\* OrderedMultiDict.setlist
OrderedMultiDict_setlist(o, key, new_list) ==
    IF OrderedMultiDict_poplist(o, key).raised # ""
    THEN [OrderedMultiDict_poplist(o, key) EXCEPT !.rv = <<>>]
    ELSE add_each(OrderedMultiDict_poplist(o, key).omd, key, new_list)

RECURSIVE update_each(_, _)
\* for key, value in iter_multi_items(mapping): OrderedMultiDict.add(...), for
\* a mapping that is a list of (key, value) pairs
update_each(o, mapping) ==
    IF mapping = <<>> THEN OmdResult(o, <<>>, "")
    ELSE IF OrderedMultiDict_add(o, Head(mapping)[1], Head(mapping)[2]).raised # ""
    THEN OrderedMultiDict_add(o, Head(mapping)[1], Head(mapping)[2])
    ELSE update_each(OrderedMultiDict_add(o, Head(mapping)[1], Head(mapping)[2]).omd,
                     Tail(mapping))

\* OrderedMultiDict.update
OrderedMultiDict_update(o, mapping) == update_each(o, mapping)

\* OrderedMultiDict.popitem: dict.popitem takes the entry inserted last
OrderedMultiDict_popitem(o) ==
    IF o.dict = <<>> THEN OmdResult(o, <<>>, "BadRequestKeyError")
    ELSE IF Last(o.dict).raw # <<>>
    THEN OmdResult([o EXCEPT !.dict = DropLast(@, 1)], <<>>, "TypeError")
    ELSE OmdResult(unlink_each([o EXCEPT !.dict = DropLast(@, 1)], Last(o.dict).buckets),
                   <<Last(o.dict).key, o.buckets[Head(Last(o.dict).buckets)].value>>,
                   "")

\* OrderedMultiDict.popitemlist
OrderedMultiDict_popitemlist(o) ==
    IF o.dict = <<>> THEN OmdResult(o, <<>>, "BadRequestKeyError")
    ELSE IF Last(o.dict).raw # <<>>
    THEN OmdResult([o EXCEPT !.dict = DropLast(@, 1)], <<>>, "TypeError")
    ELSE OmdResult(unlink_each([o EXCEPT !.dict = DropLast(@, 1)], Last(o.dict).buckets),
                   <<Last(o.dict).key, bucket_values(o, Last(o.dict).buckets)>>,
                   "")

\* OrderedMultiDict.__setstate__: dict.clear(self), which leaves the chain
\* of buckets as it is, then add for each pair
OrderedMultiDict_setstate(o, values) ==
    update_each([o EXCEPT !.dict = <<>>], values)

\* clear is not defined by OrderedMultiDict nor by MultiDict: it is dict.clear
OrderedMultiDict_clear(o) == OmdResult([o EXCEPT !.dict = <<>>], <<>>, "")

RECURSIVE dict_update(_, _)
\* dict.update(self, other) for a list of (key, value) pairs
dict_update(d, other) ==
    IF other = <<>> THEN d
    ELSE dict_update(dict_setitem(d, Head(other)[1], Head(other)[2]), Tail(other))

\* d |= other, which is dict.__ior__: neither OrderedMultiDict nor MultiDict
\* defines it, so the values of other go into the dict as they are and no
\* bucket is made or unlinked; it returns self
OrderedMultiDict_ior(o, other) ==
    OmdResult([o EXCEPT !.dict = dict_update(@, other)], <<>>, "")

RECURSIVE chain(_, _)
\* the buckets met from ptr through next, until None
chain(o, ptr) ==
    IF ptr = NoBucket THEN <<>>
    ELSE <<ptr>> \o chain(o, o.buckets[ptr].next)

RECURSIVE first_only(_, _)
\* the pairs whose key is not in returned_keys, each key once
first_only(pairs, returned_keys) ==
    IF pairs = <<>> THEN <<>>
    ELSE IF Head(pairs)[1] \in returned_keys
         THEN first_only(Tail(pairs), returned_keys)
         ELSE <<Head(pairs)>>
              \o first_only(Tail(pairs), returned_keys \cup {Head(pairs)[1]})

\* list(OrderedMultiDict.items(multi))
OrderedMultiDict_items(o, multi) ==
    LET all == [i \in 1..Len(chain(o, o._first_bucket)) |->
                <<o.buckets[chain(o, o._first_bucket)[i]].key,
                  o.buckets[chain(o, o._first_bucket)[i]].value>>]
    IN IF multi THEN all ELSE first_only(all, {})

\* OrderedMultiDict.getlist without a type, which walks what the dict holds
\* for the key
OrderedMultiDict_getlist(o, key) ==
    IF dict_holds_raw(o.dict, key) THEN OmdResult(o, <<>>, "TypeError")
    ELSE IF dict_contains(o.dict, key)
    THEN OmdResult(o, bucket_values(o, dict_getitem(o.dict, key)), "")
    ELSE OmdResult(o, <<>>, "")

\* len(d): the keys of the dict
OrderedMultiDict_len(o) == Len(o.dict)

\* -------------------------------------------------------------- HeaderSet

\* HeaderSet(headers): the list as given and the set of its lower-cased items
HeaderSet(headers) ==
    [_headers |-> headers, _set |-> {lower(headers[i]) : i \in 1..Len(headers)}]

\* what a call gives: the set afterwards, the exception and, of a call that
\* returns one, the value
SetResult(hs, raised) == [hs |-> hs, raised |-> raised, rv |-> None]
SetReturn(hs, rv) == [hs |-> hs, raised |-> "", rv |-> rv]

RECURSIVE HeaderSet_update(_, _)
\* HeaderSet.update(iterable): a header whose lower-cased form is not in _set
\* is appended to _headers and its lower-cased form is added to _set
HeaderSet_update(hs, iterable) ==
    IF iterable = <<>> THEN hs
    ELSE HeaderSet_update(
             IF lower(Head(iterable)) \notin hs._set
             THEN [_headers |-> Append(hs._headers, Head(iterable)),
                   _set |-> hs._set \cup {lower(Head(iterable))}]
             ELSE hs,
             Tail(iterable))

\* HeaderSet.add(header)
HeaderSet_add(hs, header) == HeaderSet_update(hs, <<header>>)

\* del list[idx] for an idx counted from 0
ListDel(list, idx) == SubSeq(list, 1, idx) \o SubSeq(list, idx + 2, Len(list))

\* HeaderSet.remove(header): the lower-cased header leaves _set; the first
\* item of _headers whose lower-cased form equals header as it was given
\* leaves _headers
HeaderSet_remove(hs, header) ==
    IF lower(header) \notin hs._set THEN SetResult(hs, "KeyError")
    ELSE SetResult(
             [_set |-> hs._set \ {lower(header)},
              _headers |->
                  IF \E i \in 1..Len(hs._headers) : lower(hs._headers[i]) = header
                  THEN ListDel(hs._headers,
                               Min({i \in 1..Len(hs._headers) :
                                    lower(hs._headers[i]) = header}) - 1)
                  ELSE hs._headers],
             "")

\* HeaderSet.discard(header): remove, with the KeyError caught
HeaderSet_discard(hs, header) == SetResult(HeaderSet_remove(hs, header).hs, "")

\* HeaderSet.clear
HeaderSet_clear(hs) == SetResult([_headers |-> <<>>, _set |-> {}], "")

\* HeaderSet.__delitem__(idx), idx from 0: the item is popped from _headers
\* before its lower-cased form is removed from _set
HeaderSet_delitem(hs, idx) ==
    IF idx >= Len(hs._headers) THEN SetResult(hs, "IndexError")
    ELSE IF lower(hs._headers[idx + 1]) \notin hs._set
         THEN SetResult([hs EXCEPT !._headers = ListDel(@, idx)], "KeyError")
         ELSE SetResult([_headers |-> ListDel(hs._headers, idx),
                         _set |-> hs._set \ {lower(hs._headers[idx + 1])}], "")

\* HeaderSet.__setitem__(idx, value), idx from 0
HeaderSet_setitem(hs, idx, value) ==
    IF idx >= Len(hs._headers) THEN SetResult(hs, "IndexError")
    ELSE IF lower(hs._headers[idx + 1]) \notin hs._set
         THEN SetResult(hs, "KeyError")
         ELSE SetResult([_headers |-> [hs._headers EXCEPT ![idx + 1] = value],
                         _set |-> (hs._set \ {lower(hs._headers[idx + 1])})
                                  \cup {lower(value)}], "")

\* len(hs), header in hs, list(hs)
HeaderSet_len(hs) == Cardinality(hs._set)
HeaderSet_contains(hs, header) == lower(header) \in hs._set
HeaderSet_iter(hs) == hs._headers

\* The mutators HeaderSet inherits from collections.abc.MutableSet, which go
\* through its own __iter__, __contains__, add, discard and clear.  Their
\* operand `it` is a list of headers (it.values) or the set itself (it.own).

\* MutableSet.pop(): the first item of iter(self) is discarded and returned;
\* KeyError when there is none
HeaderSet_pop(hs) ==
    IF HeaderSet_iter(hs) = <<>> THEN SetResult(hs, "KeyError")
    ELSE SetReturn(HeaderSet_discard(hs, Head(HeaderSet_iter(hs))).hs,
                   Head(HeaderSet_iter(hs)))

RECURSIVE HeaderSet_discard_each(_, _)
\* for value in values: self.discard(value)
HeaderSet_discard_each(hs, values) ==
    IF values = <<>> THEN hs
    ELSE HeaderSet_discard_each(HeaderSet_discard(hs, Head(values)).hs, Tail(values))

RECURSIVE HeaderSet_add_each(_, _, _)
\* for value in it: self.add(value), from the i-th item on; the iterator of
\* the set itself walks _headers as it grows
HeaderSet_add_each(hs, it, i) ==
    LET values == IF it.own THEN HeaderSet_iter(hs) ELSE it.values
    IN IF i > Len(values) THEN hs
       ELSE HeaderSet_add_each(HeaderSet_add(hs, values[i]), it, i + 1)

\* MutableSet.__ior__(it), hs |= it
HeaderSet_ior(hs, it) == SetResult(HeaderSet_add_each(hs, it, 1), "")

\* Set.__sub__(other), self - other: HeaderSet(value for value in self if
\* value not in other), other made a HeaderSet when it is a list
HeaderSet_sub(hs, it) ==
    LET other == IF it.own THEN hs ELSE HeaderSet(it.values)
    IN HeaderSet(SelectSeq(HeaderSet_iter(hs),
                           LAMBDA value : ~HeaderSet_contains(other, value)))

\* MutableSet.__iand__(it), hs &= it: every item of self - it is discarded
HeaderSet_iand(hs, it) ==
    SetResult(HeaderSet_discard_each(hs, HeaderSet_iter(HeaderSet_sub(hs, it))), "")

RECURSIVE HeaderSet_toggle_each(_, _)
\* for value in it: discard it when it is in self, else add it
HeaderSet_toggle_each(hs, values) ==
    IF values = <<>> THEN hs
    ELSE HeaderSet_toggle_each(
             IF HeaderSet_contains(hs, Head(values))
             THEN HeaderSet_discard(hs, Head(values)).hs
             ELSE HeaderSet_add(hs, Head(values)),
             Tail(values))

\* MutableSet.__ixor__(it), hs ^= it: clear for the set itself, else the
\* items of HeaderSet(it) are toggled
HeaderSet_ixor(hs, it) ==
    IF it.own THEN HeaderSet_clear(hs)
    ELSE SetResult(HeaderSet_toggle_each(hs, HeaderSet_iter(HeaderSet(it.values))), "")

\* MutableSet.__isub__(it), hs -= it: clear for the set itself, else every
\* item of it is discarded
HeaderSet_isub(hs, it) ==
    IF it.own THEN HeaderSet_clear(hs)
    ELSE SetResult(HeaderSet_discard_each(hs, it.values), "")

\* -------------------------------------------------------------- parse_lines

\* next(iterator) at position i of chain(lines, _empty_string_iter): the
\* lines, then "" for ever
NextOf(lines, i) == IF i <= Len(lines) THEN lines[i] ELSE <<>>

\* what a piece of parse_lines hands back: the events yielded so far, the
\* position of the iterator, the message of the ValueError ("" for none) and
\* a value of its own
Lines(events, pos, fail, value) ==
    [events |-> events, pos |-> pos, fail |-> fail, value |-> value]

RECURSIVE find_terminator(_, _)
\* MultiPartParser._find_terminator(iterator), from position i: the first
\* line that is not blank, stripped on both sides, or b"" at an empty line
find_terminator(lines, i) ==
    IF NextOf(lines, i) = <<>> THEN Lines(<<>>, i + 1, "", <<>>)
    ELSE IF strip(NextOf(lines, i)) # <<>>
    THEN Lines(<<>>, i + 1, "", strip(NextOf(lines, i)))
    ELSE find_terminator(lines, i + 1)

RECURSIVE parse_multipart_headers(_, _, _)
\* parse_multipart_headers(iterable), from position i with the pairs in
\* result: a line that begins with a space or a tab continues the last
\* value behind "\n " when there is one
parse_multipart_headers(lines, i, result) ==
    LET parsed == line_parse(NextOf(lines, i))
        text == parsed.line
    IN IF ~parsed.terminated
       THEN Lines(<<>>, i + 1, "unexpected end of line in multipart header", result)
       ELSE IF text = <<>> THEN Lines(<<>>, i + 1, "", Headers(result))
       ELSE IF text[1] \in {SP, TAB} /\ result # <<>>
       THEN parse_multipart_headers(
                lines, i + 1,
                [result EXCEPT ![Len(result)] = <<@[1], @[2] \o <<LF, SP>> \o Tail(text)>>])
       ELSE IF FirstColon(text) = 0
       THEN parse_multipart_headers(lines, i + 1, result)
       ELSE parse_multipart_headers(
                lines, i + 1,
                Append(result, <<strip(SubSeq(text, 1, FirstColon(text) - 1)),
                                 strip(SubSeq(text, FirstColon(text) + 1, Len(text)))>>))

RECURSIVE part_lines(_, _, _, _, _, _)
\* the `for line in iterator` loop of parse_lines over the lines of one part,
\* from position i with buf held back: value is the terminator it broke at.
\* A decoded line that ends in CRLF is yielded without it (line[:-2]) and
\* buf is the CRLF; of any other line the last byte is held back
\* (buf = line[-1:]) and the bytes before it are yielded (line[:-1]), which
\* cuts the last atom of the line when it spells more than one byte
part_lines(lines, i, next_part, transfer_encoding, buf, events) ==
    LET line == NextOf(lines, i)
        decoded == IF transfer_encoding = None THEN [ok |-> TRUE, data |-> line]
                   ELSE codec_decode(IF transfer_encoding = <<"base64">>
                                     THEN <<"base64_codec">> ELSE transfer_encoding,
                                     line)
        flushed == IF buf # <<>> THEN Append(events, Event(cont, <<>>, None, None, buf))
                   ELSE events
        word == Last(decoded.data)
        last_byte == IF decoded.data = <<>> THEN <<>>
                     ELSE IF AtomLen(word) = 1 THEN <<word>>
                     ELSE <<SubSeq(word, Len(word), Len(word))>>
        before_it == IF decoded.data = <<>> THEN <<>>
                     ELSE IF AtomLen(word) = 1 THEN DropLast(decoded.data, 1)
                     ELSE Append(DropLast(decoded.data, 1), SubSeq(word, 1, Len(word) - 1))
    IN IF line = <<>> THEN Lines(events, i + 1, "unexpected end of stream", <<>>)
       ELSE IF /\ Head(line) = DASHES
               /\ rstrip(line, Whitespace) \in {next_part, next_part \o <<DASHES>>}
       THEN Lines(IF buf \notin {<<>>, <<CR>>, <<LF>>, <<CR, LF>>}
                  THEN Append(Append(events, Event(cont, <<>>, None, None, buf)),
                              Event(end, <<>>, None, None, <<>>))
                  ELSE Append(events, Event(end, <<>>, None, None, <<>>)),
                  i + 1, "", rstrip(line, Whitespace))
       ELSE IF ~decoded.ok
       THEN Lines(events, i + 1, "could not decode transfer encoded chunk", <<>>)
       ELSE IF LastN(decoded.data, 2) = <<CR, LF>>
       THEN part_lines(lines, i + 1, next_part, transfer_encoding, <<CR, LF>>,
                       Append(flushed, Event(cont, <<>>, None, None,
                                             DropLast(decoded.data, 2))))
       ELSE part_lines(lines, i + 1, next_part, transfer_encoding, last_byte,
                       Append(flushed, Event(cont, <<>>, None, None, before_it)))

\* the begin event of a part of parse_lines
begin_event(headers, extra) ==
    IF DictGet(extra, <<"filename">>) = None
    THEN Event(begin_form, headers, DictGet(extra, <<"name">>), None, <<>>)
    ELSE Event(begin_file, headers, DictGet(extra, <<"name">>),
               DictGet(extra, <<"filename">>), <<>>)

RECURSIVE parse_parts_of_lines(_, _, _, _)
\* the `while terminator != last_part` loop of parse_lines, entered at
\* position i after a next_part line
parse_parts_of_lines(lines, i, next_part, events) ==
    LET head == parse_multipart_headers(lines, i, <<>>)
        disposition == Headers_get(head.value, <<"content-disposition">>)
        body == part_lines(lines, head.pos, next_part, get_part_encoding(head.value),
                           <<>>,
                           Append(events,
                                  begin_event(head.value,
                                              parse_options_header(disposition).options)))
    IN IF head.fail # "" THEN Lines(events, head.pos, head.fail, <<>>)
       ELSE IF disposition = None
       THEN Lines(events, head.pos, "Missing Content-Disposition header", <<>>)
       ELSE IF body.fail # "" \/ body.value = next_part \o <<DASHES>> THEN body
       ELSE parse_parts_of_lines(lines, body.pos, next_part, body.events)

\* list(MultiPartParser.parse_lines(file, boundary, content_length)) for a
\* file that make_line_iter cuts into lines: the events yielded and the
\* ValueError that ended the generator, if one did
parse_lines(lines, boundary) ==
    LET terminator == find_terminator(lines, 1)
    IN IF terminator.value = <<DASHES>> \o boundary \o <<DASHES>>
       THEN Lines(<<>>, terminator.pos, "", <<>>)
       ELSE IF terminator.value # <<DASHES>> \o boundary
       THEN Lines(<<>>, terminator.pos,
                  "Expected boundary at start of multipart data", <<>>)
       ELSE parse_parts_of_lines(lines, terminator.pos, <<DASHES>> \o boundary, <<>>)

RECURSIVE feed_lines(_, _, _)
\* a LineParser fed line after line: the tuples it yields and the ValueError
\* that ended it, if one did
feed_lines(lp, lines, events) ==
    IF lines = <<>> THEN Lines(events, 0, "", <<>>)
    ELSE IF LineParser_feed(lp, Head(lines)).fail # ""
    THEN Lines(events, 0, LineParser_feed(lp, Head(lines)).fail, <<>>)
    ELSE feed_lines(LineParser_feed(lp, Head(lines)).lp, Tail(lines),
                    events \o SelectSeq(LineParser_feed(lp, Head(lines)).out,
                                        LAMBDA o : o.py = "tuple"))

\* ------------------------------------------------------------ state machine

VARIABLES
    encoded,               \* the parts the body was encoded from, if any
    body,                  \* the bytes the transport will deliver
    boundary,              \* the boundary parameter of the content type
    max_form_memory_size,  \* FormDataParser.max_form_memory_size
    silent,                \* FormDataParser.silent
    max_content_length,    \* FormDataParser.max_content_length
    mimetype,              \* the mimetype parameter of FormDataParser.parse
    content_length,        \* its content_length parameter
    file,                  \* the bytes of the stream not yet read
    short_reads,           \* the short reads the transport makes at most
    cuts,                  \* the short reads it has made
    reads,                 \* the calls of file.read made by parse_parts
    pc,                    \* "start", "reading", "done"
    line_splitter,         \* parse_parts' LineSplitter
    line_parser,           \* parse_parts' LineParser
    locals,                \* parse_parts' local variables
    sinks,                 \* the sinks the stream factory has handed out
    parts,                 \* what parse_parts has yielded
    log,                   \* the calls of LineParser.feed so far
    parsed,                \* how MultiPartParser.parse ended
    result,                \* how FormDataParser.parse ended
    exhausted,             \* exhaust_stream has drained the stream
    Headers_list,          \* the _list of a Headers instance
    Headers_call,          \* the last call made on that instance
    splitter,              \* a LineSplitter instance of a caller's own
    feeds,                 \* the calls of its feed: the input, the lines yielded
    omd,                   \* an OrderedMultiDict instance
    omd_calls,             \* the calls made on it, each with what it gave
    header_set,            \* a HeaderSet instance
    header_set_calls,      \* the calls made on it
    line_seq,              \* the lines given to parse_lines and to a LineParser
    refinement             \* what either made of them

vars == <<encoded, body, boundary, max_form_memory_size, silent, short_reads,
          max_content_length, mimetype, content_length,
          file, cuts, reads, pc,
          line_splitter, line_parser, locals, sinks, parts, log, parsed,
          result, exhausted, Headers_list, Headers_call, splitter, feeds, omd, omd_calls,
          header_set, header_set_calls, line_seq, refinement>>

\* the variables of a parse, and those of a Headers instance
parse_vars == <<encoded, body, boundary, max_form_memory_size, silent, short_reads,
                max_content_length, mimetype, content_length,
                file, cuts, reads, pc,
                line_splitter, line_parser, locals, sinks, parts, log, parsed,
                result, exhausted>>
headers_vars == <<Headers_list, Headers_call>>
splitter_vars == <<splitter, feeds>>
omd_vars == <<omd, omd_calls>>
set_vars == <<header_set, header_set_calls>>
lines_vars == <<line_seq, refinement>>

\* what a parse, a Headers instance and a LineSplitter instance leave alone
beside_parse == <<headers_vars, splitter_vars, omd_vars, set_vars, lines_vars>>
beside_headers == <<parse_vars, splitter_vars, omd_vars, set_vars, lines_vars>>
beside_splitter == <<parse_vars, headers_vars, omd_vars, set_vars, lines_vars>>
beside_omd == <<parse_vars, headers_vars, splitter_vars, set_vars, lines_vars>>
beside_set == <<parse_vars, headers_vars, splitter_vars, omd_vars, lines_vars>>
beside_lines == <<parse_vars, headers_vars, splitter_vars, omd_vars, set_vars>>

inputs == <<encoded, body, boundary, max_form_memory_size, silent, short_reads,
            max_content_length, mimetype, content_length>>

\* a call of a Headers method: its arguments, the list before it, the
\* exception it raised, and the number of calls made up to it
HeadersCall(op, key, value, pairs, start, stop) ==
    [op |-> op, key |-> key, value |-> value, pairs |-> pairs, start |-> start,
     stop |-> stop, before |-> <<>>, raised |-> "", rv |-> <<>>, nth |-> 0]
NoCall == HeadersCall("", <<>>, <<>>, <<>>, 0, 0)

\* the running parse_parts as one record
State ==
    [line_splitter |-> line_splitter, line_parser |-> line_parser,
     max_form_memory_size |-> max_form_memory_size, locals |-> locals,
     sinks |-> sinks, parts |-> parts, log |-> log, exc |-> NoExc]

Install(st) ==
    /\ line_splitter' = st.line_splitter
    /\ line_parser' = st.line_parser
    /\ locals' = st.locals
    /\ sinks' = st.sinks
    /\ parts' = st.parts
    /\ log' = st.log

\* parse_parts has stopped in st: MultiPartParser.parse returns or raises,
\* the finally clause of exhaust_stream reads the stream to its end, and
\* FormDataParser.parse returns or raises
Finished(outcome) ==
    /\ parsed' = outcome
    /\ result' = FormDataParser_parse(outcome, silent)
    /\ exhausted' = TRUE
    /\ pc' = "done"
Finish(st) == Finished(MultiPartParser_parse(st))

StreamInit(part_lists, bodies, boundaries, limits, silents, most_cuts) ==
    /\ encoded \in part_lists
    /\ body \in (IF encoded = <<>> THEN bodies ELSE {EncodeBody(encoded)})
    /\ short_reads = most_cuts
    /\ cuts = 0
    /\ boundary \in boundaries
    /\ max_form_memory_size \in limits
    /\ silent \in silents
    /\ file = body
    /\ reads = 0
    /\ pc = "start"
    /\ line_splitter = LineSplitter(0)
    /\ line_parser = LineParser(<<>>)
    /\ locals = parse_parts_locals
    /\ sinks = <<>>
    /\ parts = <<>>
    /\ log = <<>>
    /\ parsed = Pending
    /\ result = Pending
    /\ exhausted = FALSE

\* a call of FormDataParser.parse to come for a multipart body, without a
\* ceiling on the content length, the length declared being the body's
ParseInit(part_lists, bodies, boundaries, limits, silents, most_cuts) ==
    /\ StreamInit(part_lists, bodies, boundaries, limits, silents, most_cuts)
    /\ mimetype = "multipart/form-data"
    /\ max_content_length = NoLimit
    /\ content_length = ByteLen(body)

\* no Headers instance and no LineSplitter instance of the caller's
HeadersIdle == Headers_list = <<>> /\ Headers_call = NoCall
SplitterIdle == splitter = LineSplitter(0) /\ feeds = <<>>
OmdIdle == omd = OrderedMultiDict /\ omd_calls = <<>>
SetIdle == header_set = HeaderSet(<<>>) /\ header_set_calls = <<>>
LinesIdle == line_seq = <<>> /\ refinement = <<>>
BesideParseIdle == HeadersIdle /\ SplitterIdle /\ OmdIdle /\ SetIdle /\ LinesIdle

\* a call of FormDataParser.parse to come, with or without a ceiling on the
\* content length, for a mimetype that has a parse function or has none,
\* the length declared being the body's or none
DispatchInit(bodies, silents) ==
    /\ StreamInit({<<>>}, bodies, {BoundaryB}, {NoLimit}, silents, 0)
    /\ mimetype \in Mimetypes
    /\ max_content_length \in {NoLimit, ContentCeiling}
    /\ content_length \in {NoLength, ByteLen(body)}
    /\ BesideParseIdle

\* a parse to come, and no Headers instance of the caller's
InitWith(part_lists, bodies, boundaries, limits, silents, most_cuts) ==
    /\ ParseInit(part_lists, bodies, boundaries, limits, silents, most_cuts)
    /\ BesideParseIdle

\* FormDataParser.parse -> _parse_multipart up to the first read: a declared
\* content length over the ceiling raises RequestEntityTooLarge before
\* anything else, a mimetype without a parse function leaves the stream
\* alone and gives two empty containers; _parse_multipart without a
\* boundary option raises ValueError at once; otherwise
\* MultiPartParser.parse starts parse_parts, which builds its LineSplitter
\* and LineParser.  No check of the boundary happens on this path.
Call ==
    /\ pc = "start"
    /\ IF over_content_length(max_content_length, content_length)
       THEN /\ parsed' = Pending
            /\ result' = Raised(Exc("RequestEntityTooLarge", ""))
            /\ pc' = "done"
            /\ UNCHANGED <<line_splitter, line_parser, exhausted, file>>
       ELSE IF get_parse_func(mimetype) = None
       THEN /\ parsed' = Pending
            /\ result' = ReturnedMaps(<<>>, <<>>)
            /\ pc' = "done"
            /\ UNCHANGED <<line_splitter, line_parser, exhausted, file>>
       ELSE IF boundary = None
       THEN /\ parsed' = Pending
            /\ result' = FormDataParser_parse(Raised(Exc("ValueError", "Missing boundary")),
                                              silent)
            /\ exhausted' = TRUE
            /\ file' = exhaust_stream(file)
            /\ pc' = "done"
            /\ UNCHANGED <<line_splitter, line_parser>>
       ELSE /\ line_splitter' = LineSplitter(0)
            /\ line_parser' = LineParser(boundary)
            /\ pc' = "reading"
            /\ UNCHANGED <<parsed, result, exhausted, file>>
    /\ UNCHANGED <<inputs, cuts, reads, locals, sinks, parts, log>>
    /\ UNCHANGED beside_parse

\* a round of a loop that does not stop at the empty read
Round_without_break(st, rest, at_eof) ==
    /\ Install(st)
    /\ reads' = reads + 1
    /\ IF st.exc # NoExc
       THEN Finish(st) /\ file' = exhaust_stream(rest)
       ELSE file' = rest /\ UNCHANGED <<pc, parsed, result, exhausted>>

\* what a round of parse_parts' loop leaves behind: an exception ends the
\* call, the round after the empty read ends it as well, any other round
\* leaves the rest of the stream to the next read
Round(st, rest, at_eof) ==
    /\ Install(st)
    /\ reads' = reads + 1
    /\ IF st.exc # NoExc \/ at_eof
       THEN Finish(st) /\ file' = exhaust_stream(rest)
       ELSE file' = rest /\ UNCHANGED <<pc, parsed, result, exhausted>>

\* one round of parse_parts' loop in which file.read(buffer_size) returns the
\* next n atoms of the stream: all that is left, or, while the transport
\* may still make a short read, less
ReadBlock(n) ==
    /\ pc = "reading"
    /\ file # <<>>
    /\ n \in 1..Len(file)
    /\ ByteLen(SubSeq(file, 1, n)) <= buffer_size
    /\ IF n < Len(file) THEN cuts < short_reads /\ cuts' = cuts + 1 ELSE cuts' = cuts
    /\ Round(ParseBlock(State, SubSeq(file, 1, n)), SubSeq(file, n + 1, Len(file)), FALSE)
    /\ UNCHANGED inputs
    /\ UNCHANGED beside_parse

\* the round in which file.read returns b"": the splitter is flushed, the
\* loop ends and parse returns or raises
ReadEOF ==
    /\ pc = "reading"
    /\ file = <<>>
    /\ Round(ParseBlock(State, <<>>), <<>>, TRUE)
    /\ UNCHANGED <<inputs, cuts>>
    /\ UNCHANGED beside_parse

\* The calls the model starts from: bodies that vary in framing, headers and
\* content, read with up to MaxCuts short reads; bodies encoded from fewer
\* than MaxParts parts, read with at most one short read, and from MaxParts
\* parts, read in one block; one-part bodies under a memory ceiling, silent
\* or not, read with at most one short read; calls whose boundary
\* parameter is empty, invalid or missing; and two-part bodies whose parts
\* declare a transfer encoding or none, read in one block; and calls with
\* or without a ceiling on the declared content length, for the multipart
\* mimetype and for one without a parse function; and one-part bodies whose
\* content holds a boundary token followed by a space or a tab, and
\* two-part bodies of form fields and files, both read with at most one
\* short read; and two-part bodies of form fields and files under a memory
\* ceiling, read in one block.
Init ==
    \/ InitWith({<<>>}, FramingBodies \cup PartBodies, {BoundaryB}, {NoLimit},
                {TRUE}, MaxCuts)
    \/ InitWith({ps \in PartLists : Len(ps) < MaxParts}, {}, {BoundaryB}, {NoLimit},
                {TRUE}, 1)
    \/ InitWith({ps \in PartLists : Len(ps) = MaxParts}, {}, {BoundaryB}, {NoLimit},
                {TRUE}, 0)
    \/ InitWith({<<>>}, PartBodies, {BoundaryB}, {MemoryLimit}, BOOLEAN, 1)
    \/ InitWith({<<>>}, OddBoundaryBodies, Boundaries \ {BoundaryB}, {NoLimit},
                BOOLEAN, 0)
    \/ InitWith({<<>>}, TransferBodies, {BoundaryB}, {NoLimit}, {TRUE}, 0)
    \/ DispatchInit(DispatchBodies, BOOLEAN)
    \/ InitWith({<<>>}, PaddedBoundaryBodies, {BoundaryB}, {NoLimit}, {FALSE}, 1)
    \/ InitWith({<<>>}, SinkBodies, {BoundaryB}, {NoLimit}, {FALSE}, 1)
    \/ InitWith({<<>>}, MemoryBodies, {BoundaryB}, {MemoryLimit}, {FALSE}, 0)

Next ==
    \/ Call
    \/ \E n \in 1..Len(file) : ReadBlock(n)
    \/ ReadEOF

Spec == Init /\ [][Next]_vars

\* where the call is: its position and the reads it has made
control == <<pc, reads>>

\* what a step of Next does to control: the call starts reading or ends at
\* once, a round makes one read and goes on or ends
NextOnControl ==
    \/ pc = "start" /\ pc' \in {"reading", "done"} /\ reads' = reads
    \/ pc = "reading" /\ pc' \in {"reading", "done"} /\ reads' = reads + 1

\* parse_parts is one sequential loop: a round begins with file.read, which
\* returns for a stream that delivers its body and then b"", and the round
\* runs to its end without waiting for anything else.  So while the call has
\* not ended its next step is taken; the steps that change control are the
\* steps of Next, each of which changes it as NextOnControl says
FairSpec == Spec /\ WF_control(NextOnControl)

\* ------------------------------------------------------ a Headers instance

\* the keys, values and lists of pairs the calls on a Headers instance take:
\* one key in two spellings and another key; clean values and values with a
\* line feed or a carriage return
HeaderKeys == {<<"X-Custom">>, <<"x-custom">>, <<"Content-Type">>}
CleanValues == {<<"v1">>, <<"v2">>}
HeaderValues == CleanValues \cup {<<"v1", LF, "v2">>, <<"v1", CR>>}
HeaderPairLists ==
    {<< <<<<"x-custom">>, <<"v2">>>> >>,
     << <<<<"X-Custom">>, <<"v2">>>>, <<<<"Content-Type">>, <<"v1">>>> >>,
     << <<<<"Content-Type">>, <<"v1">>>>, <<<<"X-Custom">>, <<"v1", LF, "v2">>>> >>,
     << <<<<"X-Custom">>, <<"v1", CR>>>> >>}

\* the lists of values passed to setlist and setlistdefault: none, one, two,
\* and lists whose first or second value holds a line feed
HeaderValueLists ==
    {<<>>, << <<"v1">> >>, << <<"v1">>, <<"v2">> >>,
     << <<"v2">>, <<"v1", LF, "v2">> >>, << <<"v1", LF, "v2">> >>}

\* the lists a Headers instance is constructed from
HeaderDefaults ==
    {<<>>,
     << <<<<"X-Custom">>, <<"v1">>>>, <<<<"Content-Type">>, <<"v2">>>>,
        <<<<"x-custom">>, <<"v2">>>> >>,
     << <<<<"X-Custom">>, <<"v1", LF, "v2">>>> >>}

\* the most calls made on the instance
MaxCalls == 2

\* no parse
ParseIdle == ParseInit({<<>>}, {<<>>}, {BoundaryB}, {NoLimit}, {TRUE}, 0)

\* a call that gave r: the list it leaves, and its record
Called(r, call) ==
    /\ Headers_list' = r.list
    /\ Headers_call' = [call EXCEPT !.before = Headers_list, !.raised = r.raised,
                                    !.rv = r.rv, !.nth = Headers_call.nth + 1]
    /\ UNCHANGED beside_headers

\* headers.add(key, value)
Add(key, value) ==
    /\ Headers_call.nth < MaxCalls
    /\ Called(Headers_add(Headers_list, key, value),
              HeadersCall("add", key, value, <<>>, 0, 0))

\* headers.set(key, value)
Set(key, value) ==
    /\ Headers_call.nth < MaxCalls
    /\ Called(Headers_set(Headers_list, key, value),
              HeadersCall("set", key, value, <<>>, 0, 0))

\* headers[key] = value, key a str
SetItem(key, value) ==
    /\ Headers_call.nth < MaxCalls
    /\ Called(Headers_setitem(Headers_list, key, value),
              HeadersCall("__setitem__", key, value, <<>>, 0, 0))

\* headers[index] = (key, value)
SetItemInt(index, key, value) ==
    /\ Headers_call.nth < MaxCalls
    /\ Called(Headers_setitem_int(Headers_list, index, <<key, value>>),
              HeadersCall("__setitem__ int", key, value, <<>>, index, 0))

\* headers[start:stop] = pairs
SetItemSlice(start, stop, pairs) ==
    /\ Headers_call.nth < MaxCalls
    /\ Called(Headers_setitem_slice(Headers_list, start, stop, pairs),
              HeadersCall("__setitem__ slice", <<>>, <<>>, pairs, start, stop))

\* headers.extend(pairs)
Extend(pairs) ==
    /\ Headers_call.nth < MaxCalls
    /\ Called(Headers_extend(Headers_list, pairs),
              HeadersCall("extend", <<>>, <<>>, pairs, 0, 0))

\* headers.remove(key)
Remove(key) ==
    /\ Headers_call.nth < MaxCalls
    /\ Called(Headers_remove(Headers_list, key),
              HeadersCall("remove", key, <<>>, <<>>, 0, 0))

\* headers.clear()
Clear ==
    /\ Headers_call.nth < MaxCalls
    /\ Called(Headers_clear(Headers_list), HeadersCall("clear", <<>>, <<>>, <<>>, 0, 0))

\* del headers[key], key a str
DelItem(key) ==
    /\ Headers_call.nth < MaxCalls
    /\ Called(Headers_delitem(Headers_list, key),
              HeadersCall("__delitem__", key, <<>>, <<>>, 0, 0))

\* del headers[index]
DelItemInt(index) ==
    /\ Headers_call.nth < MaxCalls
    /\ Called(Headers_delitem_int(Headers_list, index),
              HeadersCall("__delitem__ int", <<>>, <<>>, <<>>, index, 0))

\* del headers[start:stop]
DelItemSlice(start, stop) ==
    /\ Headers_call.nth < MaxCalls
    /\ Called(Headers_delitem_slice(Headers_list, start, stop),
              HeadersCall("__delitem__ slice", <<>>, <<>>, <<>>, start, stop))

\* headers.pop(key), key a str, or headers.pop(key, default)
Pop(key, default) ==
    /\ Headers_call.nth < MaxCalls
    /\ Called(Headers_pop(Headers_list, key, default),
              HeadersCall("pop", key, default, <<>>, 0, 0))

\* headers.pop(index)
PopInt(index) ==
    /\ Headers_call.nth < MaxCalls
    /\ Called(Headers_pop_int(Headers_list, index),
              HeadersCall("pop int", <<>>, <<>>, <<>>, index, 0))

\* headers.popitem()
PopItem ==
    /\ Headers_call.nth < MaxCalls
    /\ Called(Headers_popitem(Headers_list),
              HeadersCall("popitem", <<>>, <<>>, <<>>, 0, 0))

\* headers.setlist(key, values)
SetList(key, values) ==
    /\ Headers_call.nth < MaxCalls
    /\ Called(Headers_setlist(Headers_list, key, values),
              HeadersCall("setlist", key, values, <<>>, 0, 0))

\* headers.setdefault(key, default)
SetDefault(key, default) ==
    /\ Headers_call.nth < MaxCalls
    /\ Called(Headers_setdefault(Headers_list, key, default),
              HeadersCall("setdefault", key, default, <<>>, 0, 0))

\* headers.setlistdefault(key, default)
SetListDefault(key, default) ==
    /\ Headers_call.nth < MaxCalls
    /\ Called(Headers_setlistdefault(Headers_list, key, default),
              HeadersCall("setlistdefault", key, default, <<>>, 0, 0))

\* headers.update(mapping), mapping a list of pairs
Update(mapping) ==
    /\ Headers_call.nth < MaxCalls
    /\ Called(Headers_update(Headers_list, mapping),
              HeadersCall("update", <<>>, <<>>, mapping, 0, 0))

\* headers.update(mapping), mapping another Headers
UpdateHeaders(mapping) ==
    /\ Headers_call.nth < MaxCalls
    /\ Called(Headers_update_headers(Headers_list, mapping),
              HeadersCall("update Headers", <<>>, <<>>, mapping, 0, 0))

\* headers.add_header(key, value)
AddHeader(key, value) ==
    /\ Headers_call.nth < MaxCalls
    /\ Called(Headers_add_header(Headers_list, key, value),
              HeadersCall("add_header", key, value, <<>>, 0, 0))

\* Headers(defaults) for a list of pairs, beside a parse that is not started
HeadersInit ==
    /\ ParseIdle
    /\ SplitterIdle
    /\ OmdIdle
    /\ SetIdle
    /\ LinesIdle
    /\ Headers_list \in {Headers(defaults) : defaults \in HeaderDefaults}
    /\ Headers_call = HeadersCall("__init__", <<>>, <<>>, Headers_list, 0, 0)

HeadersNext ==
    \/ \E key \in HeaderKeys, value \in HeaderValues : Add(key, value)
    \/ \E key \in HeaderKeys, value \in HeaderValues : Set(key, value)
    \/ \E key \in HeaderKeys, value \in HeaderValues : SetItem(key, value)
    \/ \E index \in 0..(Len(Headers_list) - 1), key \in HeaderKeys,
          value \in HeaderValues : SetItemInt(index, key, value)
    \/ \E start \in 0..Len(Headers_list) :
           \E stop \in start..Len(Headers_list), pairs \in HeaderPairLists :
               SetItemSlice(start, stop, pairs)
    \/ \E pairs \in HeaderPairLists : Extend(pairs)
    \/ \E key \in HeaderKeys : Remove(key)
    \/ Clear
    \/ \E key \in HeaderKeys : DelItem(key)
    \/ \E index \in 0..Len(Headers_list) : DelItemInt(index)
    \/ \E start \in 0..Len(Headers_list) :
           \E stop \in start..Len(Headers_list) : DelItemSlice(start, stop)
    \/ \E key \in HeaderKeys, default \in {missing, <<"v1">>} : Pop(key, default)
    \/ \E index \in 0..Len(Headers_list) : PopInt(index)
    \/ PopItem
    \/ \E key \in HeaderKeys, values \in HeaderValueLists : SetList(key, values)
    \/ \E key \in HeaderKeys, default \in HeaderValues : SetDefault(key, default)
    \/ \E key \in HeaderKeys, default \in HeaderValueLists :
           SetListDefault(key, default)
    \/ \E mapping \in HeaderPairLists : Update(mapping)
    \/ \E defaults \in HeaderDefaults : UpdateHeaders(Headers(defaults))
    \/ \E key \in HeaderKeys, value \in HeaderValues : AddHeader(key, value)

HeadersSpec == HeadersInit /\ [][HeadersNext]_vars

\* ------------------------------------------------- a LineSplitter instance

\* the cap of the capped instance, in bytes
SplitCap == 2

\* the most calls of feed made on one instance
MaxFeeds == 3

\* the chunks fed, of one-byte atoms: unfinished lines, lines that end in
\* LF, in CRLF and in a lone CR, an LF alone, and a line of SplitCap bytes
SplitChunks ==
    {<<"a", "b">>, <<"c", LF>>, <<"d", CR>>, <<LF>>, <<"e", CR, LF, "f">>,
     <<"g", "h", "i", LF>>, <<"j", LF, "k">>}

\* one call of feed, a generator: its input, the _leftover_buffer it was
\* started with, the lines it has yielded so far, and whether it is
\* suspended at a yield, has run to its end, or was left by its consumer
FeedCall(input_buffer, before, lines, status) ==
    [input |-> input_buffer, before |-> before, lines |-> lines, status |-> status]

\* a generator of feed is suspended at a yield
Suspended == feeds # <<>> /\ Last(feeds).status = "suspended"

\* next(g) on the generator of the call (input_buffer, before) that has
\* yielded k lines, fed being what it does in all: it runs to its next
\* yield, or to its end
FeedDone(fed, input_buffer, before, k, calls) ==
    /\ IF k < Len(fed.lines)
       THEN /\ splitter' = [splitter EXCEPT !._leftover_buffer = fed.at[k + 1]]
            /\ feeds' = Append(calls, FeedCall(input_buffer, before,
                                               SubSeq(fed.lines, 1, k + 1),
                                               "suspended"))
       ELSE /\ splitter' = fed.splitter
            /\ feeds' = Append(calls, FeedCall(input_buffer, before, fed.lines,
                                               "exhausted"))
    /\ UNCHANGED beside_splitter

\* g = splitter.feed(chunk); next(g), for a chunk that is not empty
Feed(chunk) ==
    /\ Len(feeds) < MaxFeeds
    /\ ~Suspended
    /\ FeedDone(LineSplitter_feed(splitter, chunk), chunk,
                splitter._leftover_buffer, 0, feeds)

\* g = splitter.feed(b""); next(g), the flush
Flush ==
    /\ Len(feeds) < MaxFeeds
    /\ ~Suspended
    /\ FeedDone(LineSplitter_feed(splitter, <<>>), <<>>,
                splitter._leftover_buffer, 0, feeds)

\* next(g) on the suspended generator: the for loop of the consumer takes
\* the next line
FeedResume ==
    /\ Suspended
    /\ FeedDone(LineSplitter_feed([splitter EXCEPT !._leftover_buffer =
                                       Last(feeds).before],
                                  Last(feeds).input),
                Last(feeds).input, Last(feeds).before, Len(Last(feeds).lines),
                SubSeq(feeds, 1, Len(feeds) - 1))

\* the consumer leaves its for loop at the line it holds, as parse_parts
\* does when LineParser.feed raises: the generator is never resumed
FeedLeave ==
    /\ Suspended
    /\ feeds' = [feeds EXCEPT ![Len(feeds)].status = "left"]
    /\ UNCHANGED splitter
    /\ UNCHANGED beside_splitter

\* LineSplitter() or LineSplitter(cap), beside a parse that is not started
SplitterInit ==
    /\ ParseIdle
    /\ HeadersIdle
    /\ OmdIdle
    /\ SetIdle
    /\ LinesIdle
    /\ splitter \in {LineSplitter(0), LineSplitter(SplitCap)}
    /\ feeds = <<>>

SplitterNext ==
    \/ \E chunk \in SplitChunks : Feed(chunk)
    \/ Flush
    \/ FeedResume
    \/ FeedLeave

SplitterSpec == SplitterInit /\ [][SplitterNext]_vars

\* ------------------------------------- an OrderedMultiDict and its callers

\* the most calls made on the dict
MaxOmdCalls == 3

OmdKeys == {"a", "b"}
OmdValues == {1, 2}
OmdLists == {<<>>, <<3, 4>>}
OmdMappings == {<< <<"a", 5>>, <<"b", 6>>, <<"a", 7>> >>}
\* the lists of pairs passed to __setstate__
OmdStates == {<< <<"b", 1>> >>}
\* the lists of pairs on the right of |=
OmdOthers == {<< <<"a", 1>> >>, << <<"b", 2>> >>}

\* one call: its arguments, items(multi=True) before it, and what it gave
OmdCall(op, key, value, r) ==
    [op |-> op, key |-> key, value |-> value,
     before |-> OrderedMultiDict_items(omd, TRUE), rv |-> r.rv, raised |-> r.raised]

OmdCalled(op, key, value, r) ==
    /\ omd' = r.omd
    /\ omd_calls' = Append(omd_calls, OmdCall(op, key, value, r))
    /\ UNCHANGED beside_omd

Omd_add(key, value) ==
    /\ Len(omd_calls) < MaxOmdCalls
    /\ OmdCalled("add", key, <<value>>, OrderedMultiDict_add(omd, key, value))

Omd_setitem(key, value) ==
    /\ Len(omd_calls) < MaxOmdCalls
    /\ OmdCalled("__setitem__", key, <<value>>, OrderedMultiDict_setitem(omd, key, value))

Omd_setlist(key, new_list) ==
    /\ Len(omd_calls) < MaxOmdCalls
    /\ OmdCalled("setlist", key, new_list, OrderedMultiDict_setlist(omd, key, new_list))

Omd_update(mapping) ==
    /\ Len(omd_calls) < MaxOmdCalls
    /\ OmdCalled("update", "", mapping, OrderedMultiDict_update(omd, mapping))

Omd_delitem(key) ==
    /\ Len(omd_calls) < MaxOmdCalls
    /\ OmdCalled("__delitem__", key, <<>>, OrderedMultiDict_delitem(omd, key))

Omd_pop(key) ==
    /\ Len(omd_calls) < MaxOmdCalls
    /\ OmdCalled("pop", key, <<>>, OrderedMultiDict_pop(omd, key))

Omd_poplist(key) ==
    /\ Len(omd_calls) < MaxOmdCalls
    /\ OmdCalled("poplist", key, <<>>, OrderedMultiDict_poplist(omd, key))

Omd_popitem ==
    /\ Len(omd_calls) < MaxOmdCalls
    /\ OmdCalled("popitem", "", <<>>, OrderedMultiDict_popitem(omd))

Omd_popitemlist ==
    /\ Len(omd_calls) < MaxOmdCalls
    /\ OmdCalled("popitemlist", "", <<>>, OrderedMultiDict_popitemlist(omd))

Omd_clear ==
    /\ Len(omd_calls) < MaxOmdCalls
    /\ OmdCalled("clear", "", <<>>, OrderedMultiDict_clear(omd))

Omd_pop_default(key, default) ==
    /\ Len(omd_calls) < MaxOmdCalls
    /\ OmdCalled("pop default", key, <<default>>,
                 OrderedMultiDict_pop_default(omd, key, default))

Omd_setdefault(key, default) ==
    /\ Len(omd_calls) < MaxOmdCalls
    /\ OmdCalled("setdefault", key, <<default>>,
                 OrderedMultiDict_setdefault(omd, key, default))

Omd_setlistdefault(key, default_list) ==
    /\ Len(omd_calls) < MaxOmdCalls
    /\ OmdCalled("setlistdefault", key, default_list,
                 OrderedMultiDict_setlistdefault(omd, key, default_list))

Omd_setstate(values) ==
    /\ Len(omd_calls) < MaxOmdCalls
    /\ OmdCalled("__setstate__", "", values, OrderedMultiDict_setstate(omd, values))

Omd_ior(other) ==
    /\ Len(omd_calls) < MaxOmdCalls
    /\ OmdCalled("__ior__", "", other, OrderedMultiDict_ior(omd, other))

\* OrderedMultiDict() or OrderedMultiDict(mapping)
OmdInit ==
    /\ ParseIdle
    /\ HeadersIdle
    /\ SplitterIdle
    /\ SetIdle
    /\ LinesIdle
    /\ omd \in {OrderedMultiDict}
               \cup {OrderedMultiDict_update(OrderedMultiDict, m).omd : m \in OmdMappings}
    /\ omd_calls = <<>>

OmdNext ==
    \/ \E key \in OmdKeys, value \in OmdValues : Omd_add(key, value)
    \/ \E key \in OmdKeys, value \in OmdValues : Omd_setitem(key, value)
    \/ \E key \in OmdKeys, new_list \in OmdLists : Omd_setlist(key, new_list)
    \/ \E mapping \in OmdMappings : Omd_update(mapping)
    \/ \E key \in OmdKeys : Omd_delitem(key)
    \/ \E key \in OmdKeys : Omd_pop(key)
    \/ \E key \in OmdKeys : Omd_poplist(key)
    \/ Omd_popitem
    \/ Omd_popitemlist
    \/ Omd_clear
    \/ \E key \in OmdKeys : Omd_pop_default(key, 2)
    \/ \E key \in OmdKeys, default \in {NoValue, 1} : Omd_setdefault(key, default)
    \/ \E key \in OmdKeys : Omd_setlistdefault(key, <<3, 4>>)
    \/ \E values \in OmdStates : Omd_setstate(values)
    \/ \E other \in OmdOthers : Omd_ior(other)

OmdSpec == OmdInit /\ [][OmdNext]_vars

\* -------------------------------------------- a HeaderSet and its callers

\* the most calls made on the set
MaxSetCalls == 3

\* the most items an initial list or an index reaches
MaxIdx == 1

SetHeaders == {<<"X-Custom">>, <<"x-custom">>, <<"Content-Type">>, <<"content-type">>}
SetIterables == {<< <<"Content-Type">>, <<"X-Custom">> >>,
                 << <<"x-custom">>, <<"X-Custom">> >>}
SetInitial == {<<>>, << <<"X-Custom">>, <<"content-type">> >>}

\* the operands of the in-place operators: a list of headers, or the set
\* itself
SetOperands ==
    {[own |-> FALSE, values |-> iterable] : iterable \in SetIterables}
    \cup {[own |-> TRUE, values |-> <<>>]}

SetCalledOn(op, header, idx, own, r) ==
    /\ header_set' = r.hs
    /\ header_set_calls' = Append(header_set_calls,
                                  [op |-> op, header |-> header, idx |-> idx,
                                   own |-> own,
                                   before |-> header_set._headers,
                                   raised |-> r.raised, rv |-> r.rv])
    /\ UNCHANGED beside_set

SetCalled(op, header, idx, r) == SetCalledOn(op, header, idx, FALSE, r)

Set_add(header) ==
    /\ Len(header_set_calls) < MaxSetCalls
    /\ SetCalled("add", <<header>>, 0, SetResult(HeaderSet_add(header_set, header), ""))

Set_update(iterable) ==
    /\ Len(header_set_calls) < MaxSetCalls
    /\ SetCalled("update", iterable, 0,
                 SetResult(HeaderSet_update(header_set, iterable), ""))

Set_remove(header) ==
    /\ Len(header_set_calls) < MaxSetCalls
    /\ SetCalled("remove", <<header>>, 0, HeaderSet_remove(header_set, header))

Set_discard(header) ==
    /\ Len(header_set_calls) < MaxSetCalls
    /\ SetCalled("discard", <<header>>, 0, HeaderSet_discard(header_set, header))

Set_clear ==
    /\ Len(header_set_calls) < MaxSetCalls
    /\ SetCalled("clear", <<>>, 0, HeaderSet_clear(header_set))

Set_delitem(idx) ==
    /\ Len(header_set_calls) < MaxSetCalls
    /\ SetCalled("__delitem__", <<>>, idx, HeaderSet_delitem(header_set, idx))

Set_setitem(idx, value) ==
    /\ Len(header_set_calls) < MaxSetCalls
    /\ SetCalled("__setitem__", <<value>>, idx, HeaderSet_setitem(header_set, idx, value))

Set_pop ==
    /\ Len(header_set_calls) < MaxSetCalls
    /\ SetCalled("pop", <<>>, 0, HeaderSet_pop(header_set))

Set_ior(it) ==
    /\ Len(header_set_calls) < MaxSetCalls
    /\ SetCalledOn("__ior__", it.values, 0, it.own, HeaderSet_ior(header_set, it))

Set_iand(it) ==
    /\ Len(header_set_calls) < MaxSetCalls
    /\ SetCalledOn("__iand__", it.values, 0, it.own, HeaderSet_iand(header_set, it))

Set_ixor(it) ==
    /\ Len(header_set_calls) < MaxSetCalls
    /\ SetCalledOn("__ixor__", it.values, 0, it.own, HeaderSet_ixor(header_set, it))

Set_isub(it) ==
    /\ Len(header_set_calls) < MaxSetCalls
    /\ SetCalledOn("__isub__", it.values, 0, it.own, HeaderSet_isub(header_set, it))

\* HeaderSet() or HeaderSet(headers)
SetInit ==
    /\ ParseIdle
    /\ HeadersIdle
    /\ SplitterIdle
    /\ OmdIdle
    /\ LinesIdle
    /\ header_set \in {HeaderSet(headers) : headers \in SetInitial}
    /\ header_set_calls = <<>>

SetNext ==
    \/ \E header \in SetHeaders : Set_add(header)
    \/ \E iterable \in SetIterables : Set_update(iterable)
    \/ \E header \in SetHeaders : Set_remove(header)
    \/ \E header \in SetHeaders : Set_discard(header)
    \/ Set_clear
    \/ \E idx \in 0..MaxIdx : Set_delitem(idx)
    \/ \E idx \in 0..MaxIdx, value \in SetHeaders : Set_setitem(idx, value)
    \/ Set_pop
    \/ \E it \in SetOperands : Set_ior(it)
    \/ \E it \in SetOperands : Set_iand(it)
    \/ \E it \in SetOperands : Set_ixor(it)
    \/ \E it \in SetOperands : Set_isub(it)

SetSpec == SetInit /\ [][SetNext]_vars

\* ------------------------------- parse_lines and a LineParser, side by side

\* the bodies whose lines both are given: the bodies of the parse calls
RefinementBodies ==
    FramingBodies \cup PartBodies \cup TransferBodies \cup PaddedBoundaryBodies
    \cup {<<SP>> \o LastLine, <<SP>> \o NextLine \o FormHeader("a") \o BlankLine
                              \o <<"hello", CR, LF>> \o LastLine}

\* list(parse_lines(...)) over the lines, and a LineParser fed the lines and
\* then the b"" that the flush of the splitter yields at the end of a stream
Compare ==
    /\ refinement = <<>>
    /\ refinement' = <<parse_lines(line_seq, BoundaryB),
                       feed_lines(LineParser(BoundaryB), Append(line_seq, <<>>), <<>>)>>
    /\ UNCHANGED line_seq
    /\ UNCHANGED beside_lines

LinesInit ==
    /\ ParseIdle
    /\ HeadersIdle
    /\ SplitterIdle
    /\ OmdIdle
    /\ SetIdle
    /\ line_seq \in {splitlines(b) : b \in RefinementBodies}
    /\ refinement = <<>>

LinesNext == Compare

LinesSpec == LinesInit /\ [][LinesNext]_vars

\* ------------------------------------------------- the claims of the spec

\* parse_parts run to its end on the flush that follows a block
AfterEOF(st) == IF st.exc # NoExc THEN st ELSE ParseBlock(st, <<>>)

\* MultiPartParser.parse of the call's body and boundary when the stream
\* hands the whole body over in one block
OneShot ==
    MultiPartParser_parse(AfterEOF(
        IF body = <<>>
        THEN ParseState(LineSplitter(0), LineParser(boundary), max_form_memory_size)
        ELSE ParseBlock(ParseState(LineSplitter(0), LineParser(boundary),
                                   max_form_memory_size), body)))

\* C1 (chunk-size independence): however the reads cut the body into blocks,
\* MultiPartParser.parse ends as it ends when the body comes in one block:
\* the same fields, files and contents in the same order, or the same error.
C1_ChunkIndependent ==
    (pc = "done" /\ boundary # None) => parsed = OneShot

\* a part's content as the body holds it: its lines without the terminator
\* that precedes the boundary line
WithoutTerminator(c) == line_parse(c).line

\* the payloads of the cont events LineParser.feed has yielded, concatenated
ContPayloads ==
    Concat([i \in 1..Len(log) |->
               IF log[i].out # <<>> /\ log[i].out[1].ellt = cont
               THEN log[i].out[1].data ELSE <<>>])

\* LineParser.feed has yielded an end event
PartEnded == \E i \in 1..Len(log) : log[i].out # <<>> /\ log[i].out[1].ellt = end

\* C2 (boundary CRLF exactness): for a body of one part, the payloads of the
\* cont events between the part's begin and its end, concatenated, are the
\* part's body lines without the terminator that precedes the boundary line;
\* no byte of that terminator is delivered and no other byte is lost or added.
C2_BoundaryCRLFExact ==
    \A h \in HeaderBlocks, c \in Contents :
        (/\ body = NextLine \o h \o BlankLine \o c \o LastLine
         /\ boundary = BoundaryB
         /\ PartEnded)
        => ContPayloads = WithoutTerminator(c)

\* the (name, value) pairs of the form parts of a part list, in body order
FormPairsOf(ps) ==
    [i \in 1..Len(SelectSeq(ps, LAMBDA p : p.kind = "form")) |->
        << <<SelectSeq(ps, LAMBDA p : p.kind = "form")[i].name>>,
           <<SelectSeq(ps, LAMBDA p : p.kind = "form")[i].content>> >>]

\* the (name, filename, content) triples of its files, in body order
FileTriplesOf(ps) ==
    [i \in 1..Len(SelectSeq(ps, LAMBDA p : p.kind = "file")) |->
        << <<SelectSeq(ps, LAMBDA p : p.kind = "file")[i].name>>,
           <<SelectSeq(ps, LAMBDA p : p.kind = "file")[i].filename>>,
           <<SelectSeq(ps, LAMBDA p : p.kind = "file")[i].content>> >>]

\* the (name, FileStorage) pairs of a files map as such triples
FileTriples(items) ==
    [i \in 1..Len(items) |->
        <<items[i][1], items[i][2].filename, items[i][2].stream.data>>]

\* C3 (round-trip order): for a well-formed body, here one that is read in
\* one block, iterating all pairs of the fields map that parse returns yields
\* the form parts in the order in which they appear in the body, also when
\* parts of different names are interleaved; the same holds for the files
\* map.
C3_BodyOrder ==
    (encoded # <<>> /\ cuts = 0 /\ pc = "done")
    => /\ parsed.status = "returned"
       /\ MultiDict_items(parsed.form, TRUE) = FormPairsOf(encoded)
       /\ FileTriples(MultiDict_items(parsed.files, TRUE)) = FileTriplesOf(encoded)

\* the names the lookups are tried with; no part is named c
Names == {<<"a">>, <<"b">>, <<"c">>}

\* the values of the pairs of one name, in order
ValuesOf(pairs, k) ==
    [i \in 1..Len(SelectSeq(pairs, LAMBDA x : x[1] = k)) |->
        SelectSeq(pairs, LAMBDA x : x[1] = k)[i][2]]

\* C4 (duplicate field names): for a well-formed body, getlist(name) of the
\* fields map is the values of the form parts of that name in body order
\* (the empty list for a name no part has), map[name] is the first of them,
\* and add appends to the list of its name and leaves every list as it was.
C4_DuplicateNames ==
    (encoded # <<>> /\ pc = "done")
    => /\ parsed.status = "returned"
       /\ \A k \in Names :
           /\ MultiDict_getlist(parsed.form, k) = ValuesOf(FormPairsOf(encoded), k)
           /\ MultiDict_getitem(parsed.form, k)
                  = (IF ValuesOf(FormPairsOf(encoded), k) = <<>> THEN None
                     ELSE ValuesOf(FormPairsOf(encoded), k)[1])
           /\ \A k2 \in Names :
                  MultiDict_getlist(MultiDict_add(parsed.form, k, <<"x">>), k2)
                      = (IF k2 = k
                         THEN Append(MultiDict_getlist(parsed.form, k2), <<"x">>)
                         ELSE MultiDict_getlist(parsed.form, k2))

\* C5 (unexpected end of stream): when the stream ends while the line parser
\* is in HEADERS or in OUTPUT, MultiPartParser.parse raises and returns no
\* maps, whether or not the last bytes end with a line terminator.
C5_UnexpectedEOF ==
    (pc = "done" /\ boundary # None /\ line_parser._state_enum \in {HEADERS, OUTPUT})
    => parsed.status = "raised"

\* the header blocks of a form field (a disposition without a filename)
FormFieldBlocks == {FormHeader("a"), FormHeader("a") \o CustomHeader \o FoldedSpace}

\* C6 (oversized in-memory field): when max_form_memory_size is set and the
\* content of a non-file part is longer, the parse raises
\* RequestEntityTooLarge and returns no maps, and FormDataParser.parse lets
\* the error through, silent or not.
C6_OversizedField ==
    \A h \in FormFieldBlocks, c \in Contents :
        (/\ body = NextLine \o h \o BlankLine \o c \o LastLine
         /\ boundary = BoundaryB
         /\ max_form_memory_size # NoLimit
         /\ ByteLen(WithoutTerminator(c)) > max_form_memory_size
         /\ pc = "done")
        => /\ parsed = Raised(Exc("RequestEntityTooLarge", ""))
           /\ result = parsed

\* C7 (boundary validation precedes reading): a call whose boundary is empty
\* or invalid in another way issues no read on the stream.
C7_ValidationFirst ==
    validate_boundary(boundary) # "" => reads = 0

\* the header blocks in which a continuation line follows X-Custom: line1
FoldedBlocks ==
    {FormHeader("a") \o CustomHeader \o FoldedSpace,
     FileHeader("a", "f") \o CustomHeader \o FoldedTab}

\* C8 (header folding): a line that starts with a space or a tab and follows
\* a header line is folded into that header's value: the block
\* "X-Custom: line1" + " line2" gives the part two headers, its disposition
\* and one X-Custom whose value is "line1\n line2".
C8_HeaderFolding ==
    \A h \in FoldedBlocks, c \in Contents :
        (/\ body = NextLine \o h \o BlankLine \o c \o LastLine
         /\ boundary = BoundaryB
         /\ locals.headers # <<>>)
        => /\ Len(locals.headers) = 2
           /\ SelectSeq(locals.headers, LAMBDA kv : lower(kv[1]) = <<"x-custom">>)
                  = << << <<"X-Custom">>, <<"line1", LF, SP, "line2">> >> >>

\* C9 (degenerate body): a stream whose only non-blank line is the terminal
\* boundary line, ended by CRLF, by LF or by nothing, after blank lines or
\* none, parses without error to an empty fields map and an empty files map.
C9_DegenerateBody ==
    (body \in DegenerateBodies /\ boundary = BoundaryB /\ pc = "done")
    => parsed = ReturnedMaps(<<>>, <<>>)

\* C10 (data after the terminal boundary is ignored): LineParser.feed yields
\* nothing for a line it gets in DONE, and a parse that has fed lines in
\* DONE returns its maps without raising.
C10_DoneIgnores ==
    /\ \A i \in 1..Len(log) : log[i].state = DONE => log[i].out = <<>>
    /\ (pc = "done" /\ \E i \in 1..Len(log) : log[i].state = DONE)
       => parsed.status = "returned"

\* lines a caller may feed next, whatever the parser's state
ProbeLines ==
    {NextLine, LastLine, LastLineBare, BlankLine, FormHeader("a"), CustomHeader,
     FoldedTab, <<"xyz", CR, LF>>, <<"tail">>, <<>>}

\* the transitions of _state_enum that one feed may make
AllowedTransitions ==
    {<<PRE_TERM, PRE_TERM>>, <<PRE_TERM, HEADERS>>, <<PRE_TERM, DONE>>,
     <<HEADERS, HEADERS>>, <<HEADERS, OUTPUT>>,
     <<OUTPUT, OUTPUT>>, <<OUTPUT, HEADERS>>, <<OUTPUT, DONE>>,
     <<DONE, DONE>>}

\* the state a logged feed left the line parser in
StateAfter(i) ==
    IF i < Len(log) THEN log[i + 1].state ELSE line_parser._state_enum

\* C11 (DONE is absorbing, and the transitions are the listed ones): every
\* feed the parse has made, and every feed of any line to the line parser as
\* it stands, takes _state_enum along one of the listed transitions, and
\* from DONE only to DONE.
C11_Transitions ==
    /\ \A i \in 1..Len(log) :
           /\ <<log[i].state, StateAfter(i)>> \in AllowedTransitions
           /\ log[i].state = DONE => StateAfter(i) = DONE
    /\ \A line \in ProbeLines :
           /\ <<line_parser._state_enum,
                LineParser_feed(line_parser, line).lp._state_enum>>
                  \in AllowedTransitions
           /\ line_parser._state_enum = DONE
              => LineParser_feed(line_parser, line).lp._state_enum = DONE

\* a parse that fed a line in DONE after a part had ended
C11_Witness ==
    /\ line_parser._state_enum = DONE
    /\ PartEnded
    /\ \E i \in 1..Len(log) : log[i].state = DONE /\ log[i].line # <<>>
    /\ \E i \in 1..Len(log) : log[i].state = OUTPUT /\ StateAfter(i) = HEADERS

\* everything LineParser.feed has yielded so far, in order
Emitted == Concat([i \in 1..Len(log) |-> log[i].out])

IsBegin(o) == o.py = "tuple" /\ o.ellt \in {begin_form, begin_file}

\* whether a sequence of yielded values is a prefix of a word of
\* ( begin_form cont* end | begin_file cont* end )*
ObeysGrammar(events) ==
    \A j \in 1..Len(events) :
        /\ events[j].py = "tuple"
        /\ events[j].ellt \in {begin_form, begin_file, cont, end}
        /\ IsBegin(events[j]) => (j = 1 \/ events[j - 1].ellt = end)
        /\ events[j].ellt \in {cont, end}
           => (j > 1 /\ events[j - 1].ellt \in {begin_form, begin_file, cont})

\* whether the results of parse_parts are one per begin/end pair, in order
OnePartPerPair(events, results) ==
    LET begins == SelectSeq(events, IsBegin)
        ends == SelectSeq(events, LAMBDA o : o.py = "tuple" /\ o.ellt = end)
    IN /\ Len(results) = Len(ends)
       /\ \A k \in 1..Len(results) :
              /\ results[k].kind
                     = (IF begins[k].ellt = begin_form THEN "form" ELSE "file")
              /\ results[k].name = begins[k].name

\* C12 (event grammar): whatever lines were fed, the values LineParser.feed
\* has yielded form a prefix of a word of the grammar, and parse_parts has
\* given one 'form' or 'file' result per begin/end pair, in order.
C12_EventGrammar ==
    /\ ObeysGrammar(Emitted)
    /\ OnePartPerPair(Emitted, parts)

\* the lines that _line_parse takes for a terminated empty line
BlankLines == {l \in {BlankLine, <<LF>>, <<CR>>} :
                   line_parse(l).terminated /\ line_parse(l).line = <<>>}

\* whether the header lines collected so far hold no Content-Disposition
NoDisposition(lp) ==
    Headers_get(Headers(lp._headers), <<"content-disposition">>) = None

\* the number of sinks the parse has asked the stream factory for so far
\* is the number of begin_file events
SinkPerBeginFile ==
    Len(sinks) = Len(SelectSeq(Emitted, LAMBDA o : o.py = "tuple" /\ o.ellt = begin_file))

\* C13 (missing Content-Disposition): a blank line that ends a header block
\* without a Content-Disposition header, in whatever letter case, makes the
\* feed fail and yield nothing, leaves the line parser in HEADERS and asks
\* for no sink; a parse whose last feed was such a line has raised
\* ValueError.
C13_MissingDisposition ==
    /\ (line_parser._state_enum = HEADERS /\ NoDisposition(line_parser))
       => \A l \in BlankLines :
              /\ LineParser_feed(line_parser, l).fail # ""
              /\ LineParser_feed(line_parser, l).out = <<>>
              /\ LineParser_feed(line_parser, l).lp._state_enum = HEADERS
              /\ FeedLine(State, l).exc.type = "ValueError"
              /\ FeedLine(State, l).sinks = sinks
              /\ FeedLine(State, l).parts = parts
    /\ (log # <<>> /\ Last(log).state = HEADERS /\ Last(log).line \in BlankLines
        /\ NoDisposition(line_parser))
       => /\ Last(log).out = <<>>
          /\ line_parser._state_enum = HEADERS
          /\ SinkPerBeginFile
          /\ pc = "done"
          /\ parsed = Raised(Exc("ValueError", "missing Content-Disposition header"))

\* a parse that failed at the blank line after a header block that holds
\* another header but no Content-Disposition
C13_Witness ==
    /\ pc = "done"
    /\ log # <<>> /\ Last(log).state = HEADERS /\ Last(log).line \in BlankLines
    /\ line_parser._headers # <<>>
    /\ NoDisposition(line_parser)
    /\ parsed.status = "raised"

\* whether the parse has raised while a file part was open: a sink was
\* obtained at its begin_file and no end has come for it
RaisedInOpenFile ==
    /\ pc = "done"
    /\ parsed.status = "raised"
    /\ line_parser._state_enum = OUTPUT
    /\ locals.is_file
    /\ locals.sink \in 1..Len(sinks)

\* C14 (sink release on abort): when the parse raises while a file part is
\* open, the sink obtained for that part has been closed.
C14_SinkClosedOnAbort == RaisedInOpenFile => sinks[locals.sink].closed

\* the codec a part's own headers call for: none unless they declare a
\* supported Content-Transfer-Encoding
OwnCodec(headers) ==
    IF get_part_encoding(headers) = None THEN None
    ELSE IF get_part_encoding(headers) = <<"base64">> THEN <<"base64_codec">>
    ELSE get_part_encoding(headers)

\* a line as the part's own declaration has it decoded
OwnDecoded(headers, line) ==
    IF OwnCodec(headers) = None THEN [ok |-> TRUE, data |-> line]
    ELSE codec_decode(OwnCodec(headers), line)

\* whether log entry i is the feed of the first content line of a part: the
\* feed before it yielded the part's begin event
FirstContentLine(i) ==
    /\ log[i].state = OUTPUT
    /\ log[i].line # <<>>
    /\ IsBegin(log[i - 1].out[1])
    /\ ~(log[i].out # <<>> /\ log[i].out[1].ellt = end)

\* C15 (transfer-decoding is per part): the first content line of every part
\* comes out decoded as that part's own headers declare, and unmodified (but
\* for its terminator, which is held back) when they declare nothing or an
\* unsupported encoding; a line that does not decode yields nothing.
C15_PerPartDecoding ==
    \A i \in 2..Len(log) :
        (log[i - 1].out # <<>> /\ FirstContentLine(i))
        => IF OwnDecoded(log[i - 1].out[1].headers, log[i].line).ok
           THEN /\ log[i].out # <<>>
                /\ log[i].out[1].ellt = cont
                /\ log[i].out[1].data
                       = line_parse(OwnDecoded(log[i - 1].out[1].headers,
                                               log[i].line).data).line
           ELSE log[i].out = <<>>

\* whether a stored pair has the key of the last call, up to letter case
Matches(pair) == lower(pair[1]) = lower(Headers_call.key)

\* the last call was headers.set(key, value) or headers[key] = value and
\* raised nothing
SetDone == Headers_call.op \in {"set", "__setitem__"} /\ Headers_call.raised = ""

\* C16 (Headers.set): when no pair of the list matched the key, the call
\* appended (key, value); otherwise the first matching pair was replaced in
\* place by (key, value), the pairs before it are as they were, no other
\* pair matches the key any more, and the pairs of other keys are those of
\* before in the same order.
C16_SetReplacesFirst ==
    SetDone =>
        LET before == Headers_call.before
            new == <<Headers_call.key, Headers_call.value>>
            first == FirstMatch(before, lower(Headers_call.key))
        IN IF first = 0
           THEN Headers_list = Append(before, new)
           ELSE /\ Len(Headers_list) >= first
                /\ Headers_list[first] = new
                /\ SubSeq(Headers_list, 1, first - 1) = SubSeq(before, 1, first - 1)
                /\ {i \in 1..Len(Headers_list) : Matches(Headers_list[i])} = {first}
                /\ SelectSeq(Headers_list, LAMBDA t : ~Matches(t))
                       = SelectSeq(before, LAMBDA t : ~Matches(t))

\* a set on a list in which two pairs match the key in different spellings,
\* the first of them not at the end and a pair of another key behind it
C16_Witness ==
    /\ SetDone
    /\ Cardinality({i \in 1..Len(Headers_call.before) :
                        Matches(Headers_call.before[i])}) >= 2
    /\ \E i, j \in 1..Len(Headers_call.before) :
           /\ i < j
           /\ Matches(Headers_call.before[i])
           /\ ~Matches(Headers_call.before[j])
    /\ \E i \in 1..Len(Headers_call.before) :
           /\ Matches(Headers_call.before[i])
           /\ Headers_call.before[i][1] # Headers_call.key
    /\ Len(Headers_list) < Len(Headers_call.before)

\* the last call was one of the mutators that validate the value
GuardedCall ==
    Headers_call.op \in {"add", "set", "__setitem__", "__setitem__ int",
                         "__setitem__ slice", "extend"}

\* the values the last call was to store
ValuesPassed ==
    IF Headers_call.op \in {"extend", "__setitem__ slice"}
    THEN {Headers_call.pairs[i][2] : i \in 1..Len(Headers_call.pairs)}
    ELSE {Headers_call.value}

\* C17 (newline injection defence): add, set, extend and assignment by key,
\* index or slice raise when a value they are given holds a carriage return
\* or a line feed, and the list is then exactly as it was before the call.
C17_RejectedUnchanged ==
    GuardedCall =>
        /\ (\E v \in ValuesPassed : validate_value(v) # "") => Headers_call.raised # ""
        /\ Headers_call.raised # "" => Headers_list = Headers_call.before

\* whether no value of a list of header pairs holds a carriage return or a
\* line feed
NoNewline(list) == \A i \in 1..Len(list) : validate_value(list[i][2]) = ""

\* C18 (no-newline invariant): no value of a Headers instance that the line
\* parser built from the header lines of a part (carried by the begin
\* events, kept by parse_parts and handed out with the part's result) holds
\* a carriage return or a line feed.
C18_NoNewlineStored ==
    /\ \A i \in 1..Len(Emitted) : NoNewline(Emitted[i].headers)
    /\ NoNewline(locals.headers)
    /\ \A i \in 1..Len(parts) : NoNewline(parts[i].headers)

\* the number of pairs of a list that are pair up to the case of the key
Multiplicity(list, pair) ==
    Cardinality({i \in 1..Len(list) : lowered(list[i]) = lowered(pair)})

\* whether two lists hold the same pairs, up to the case of the keys, with
\* the same multiplicities
SameMultiset(list, other) ==
    /\ Len(list) = Len(other)
    /\ \A i \in 1..Len(list) :
           Multiplicity(list, list[i]) = Multiplicity(other, list[i])

\* the lists the instance is compared with: those of its own pairs in
\* another order, with one pair more or one pair less, and the lists it may
\* be constructed from
OtherLists ==
    {Headers(defaults) : defaults \in HeaderDefaults}
    \cup {Headers_list, <<>>}
    \cup {Tail(Headers_list) \o <<Head(Headers_list)>> : i \in {1} \cap DOMAIN Headers_list}
    \cup {Append(Headers_list, Headers_list[i]) : i \in DOMAIN Headers_list}
    \cup {SelectSeq(Headers_list, LAMBDA t : t # Headers_list[i]) : i \in DOMAIN Headers_list}
    \cup {[j \in DOMAIN Headers_list |->
               IF j = i THEN <<lower(Headers_list[j][1]), Headers_list[j][2]>>
               ELSE Headers_list[j]] : i \in DOMAIN Headers_list}

\* C19 (equality is multiset equality up to key case): the instance equals
\* another Headers exactly when both hold the same (lower-cased key, value)
\* pairs with the same multiplicities, in whatever order.
C19_MultisetEquality ==
    \A other \in OtherLists :
        Headers_eq(Headers_list, other) <=> SameMultiset(Headers_list, other)

\* whether two keys differ at most in letter case
SameKey(k1, k2) == lower(k1) = lower(k2)

\* get, getlist, `in` and remove do not tell spellings of a key apart
CaseInsensitiveReads ==
    \A k1, k2 \in HeaderKeys :
        SameKey(k1, k2) =>
            /\ Headers_get(Headers_list, k1) = Headers_get(Headers_list, k2)
            /\ Headers_getlist(Headers_list, k1) = Headers_getlist(Headers_list, k2)
            /\ Headers_contains(Headers_list, k1) = Headers_contains(Headers_list, k2)
            /\ Headers_remove(Headers_list, k1) = Headers_remove(Headers_list, k2)

\* the values of the other keys are those of before the last call
OtherKeysKept ==
    /\ SelectSeq(Headers_iter(Headers_list), LAMBDA t : ~Matches(t))
           = SelectSeq(Headers_call.before, LAMBDA t : ~Matches(t))
    /\ \A k \in HeaderKeys :
           ~SameKey(k, Headers_call.key)
           => Headers_getlist(Headers_list, k) = Headers_getlist(Headers_call.before, k)

\* C20 (case-insensitive keys, case-preserving storage): reads and remove
\* take the spellings of a key for one key; an add puts its value last in
\* getlist of every spelling and its pair, spelled as passed, last in the
\* iteration; a set leaves its value as the only one of the key and its
\* pair spelled as passed; a remove leaves nothing of the key in any
\* spelling; and the pairs of other keys stay as they were stored.
C20_CaseInsensitive ==
    /\ CaseInsensitiveReads
    /\ (Headers_call.op = "add" /\ Headers_call.raised = "")
       => /\ Headers_iter(Headers_list)
                 = Append(Headers_call.before, <<Headers_call.key, Headers_call.value>>)
          /\ \A k \in HeaderKeys :
                 SameKey(k, Headers_call.key)
                 => /\ Headers_getlist(Headers_list, k)
                          = Append(Headers_getlist(Headers_call.before, k),
                                   Headers_call.value)
                    /\ Headers_contains(Headers_list, k)
          /\ OtherKeysKept
    /\ (Headers_call.op = "set" /\ Headers_call.raised = "")
       => /\ SelectSeq(Headers_iter(Headers_list), Matches)
                 = << <<Headers_call.key, Headers_call.value>> >>
          /\ \A k \in HeaderKeys :
                 SameKey(k, Headers_call.key)
                 => /\ Headers_getlist(Headers_list, k) = <<Headers_call.value>>
                    /\ Headers_get(Headers_list, k) = Headers_call.value
                    /\ Headers_contains(Headers_list, k)
          /\ OtherKeysKept
    /\ Headers_call.op = "remove"
       => /\ \A k \in HeaderKeys :
                 SameKey(k, Headers_call.key)
                 => /\ Headers_getlist(Headers_list, k) = <<>>
                    /\ Headers_get(Headers_list, k) = None
                    /\ ~Headers_contains(Headers_list, k)
          /\ OtherKeysKept

\* an add under one spelling of a key to a list that holds a pair of the
\* key in the other spelling: getlist then has both values
C20_Witness ==
    /\ Headers_call.op = "add"
    /\ Headers_call.raised = ""
    /\ \E i \in 1..Len(Headers_call.before) :
           /\ Matches(Headers_call.before[i])
           /\ Headers_call.before[i][1] # Headers_call.key
    /\ Len(Headers_getlist(Headers_list, Headers_call.key)) >= 2
    /\ \E t \in {Headers_list[i] : i \in 1..Len(Headers_list)} : ~Matches(t)

\* the last call was headers.remove(key)
RemoveDone == Headers_call.op = "remove"

\* C21 (remove by key): remove raises nothing, whether or not a pair
\* matched; afterwards no pair matches the key in any letter case, and the
\* list is the list of before without its matching pairs, the others in
\* their order.
C21_RemoveAll ==
    RemoveDone =>
        /\ Headers_call.raised = ""
        /\ \A i \in 1..Len(Headers_list) : ~Matches(Headers_list[i])
        /\ Headers_list = SelectSeq(Headers_call.before, LAMBDA t : ~Matches(t))
        /\ (\A i \in 1..Len(Headers_call.before) : ~Matches(Headers_call.before[i]))
           => Headers_list = Headers_call.before

\* a remove from a list that held the key in two spellings around a pair
\* of another key
C21_Witness ==
    /\ RemoveDone
    /\ \E i, j, k \in 1..Len(Headers_call.before) :
           /\ i < j /\ j < k
           /\ Matches(Headers_call.before[i])
           /\ ~Matches(Headers_call.before[j])
           /\ Matches(Headers_call.before[k])
           /\ Headers_call.before[i][1] # Headers_call.before[k][1]
    /\ Len(Headers_list) = Len(Headers_call.before) - 2

\* the declared content length is over the ceiling that is set
OverCeiling ==
    /\ max_content_length # NoLimit
    /\ content_length # NoLength
    /\ content_length > max_content_length

\* C22: when max_content_length is set and the declared content_length is
\* greater than it, FormDataParser.parse raises RequestEntityTooLarge, for
\* every mimetype and whether silent or not, and the stream has not been
\* touched: no read() was issued, no byte is gone and nothing was drained
C22_ContentCeiling ==
    (OverCeiling /\ pc # "start") =>
        /\ pc = "done"
        /\ result.status = "raised"
        /\ result.exc.type = "RequestEntityTooLarge"
        /\ reads = 0
        /\ file = body
        /\ ~exhausted
        /\ log = <<>>

\* a silent call for a mimetype without a parse function, over the ceiling,
\* has raised
C22_Witness ==
    /\ OverCeiling
    /\ pc = "done"
    /\ silent
    /\ mimetype = "text/plain"
    /\ result.status = "raised"
    /\ result.exc.type = "RequestEntityTooLarge"
    /\ file # <<>>

\* the parse function of the call was run and has ended
ParseFuncRan ==
    /\ pc = "done"
    /\ ~OverCeiling
    /\ get_parse_func(mimetype) # None

\* what is left of an error in parse_parts once it has stopped: the last
\* call of LineParser.feed failed, or the last value yielded was a byte
\* string that does not unpack to a pair, or the guarded memory count is
\* over its limit
ErrorSeen ==
    \/ /\ log # <<>>
       /\ \/ log[Len(log)].fail # ""
          \/ /\ log[Len(log)].out # <<>>
             /\ log[Len(log)].out[1].py = "bytes"
             /\ ByteLen(log[Len(log)].out[1].data) # 2
    \/ /\ locals.guard_memory
       /\ locals.in_memory > max_form_memory_size

\* the parse function raised ValueError: _parse_multipart had no boundary,
\* or MultiPartParser.parse raised it
ParseError ==
    /\ ParseFuncRan
    /\ \/ boundary = None
       \/ parsed.status = "raised" /\ parsed.exc.type = "ValueError"

\* C23: when the parse function fails with a ValueError, a silent
\* FormDataParser.parse returns two empty containers, whatever parts had
\* been parsed before the error, and one that is not silent raises the same
\* error; an error in parse_parts always makes MultiPartParser.parse raise
C23_BestEffort ==
    /\ (ParseError /\ silent) => result = ReturnedMaps(<<>>, <<>>)
    /\ (ParseError /\ ~silent) =>
           /\ result.status = "raised"
           /\ result.exc.type = "ValueError"
           /\ parsed.status = "raised" => result = parsed
    /\ (ParseFuncRan /\ boundary # None /\ ErrorSeen) => parsed.status = "raised"
    /\ (ParseFuncRan /\ parsed.status = "returned") => ~ErrorSeen

\* a silent call whose parse failed after a part had been parsed returned
\* two empty containers
C23_Witness ==
    /\ ParseError
    /\ silent
    /\ ErrorSeen
    /\ parts # <<>>
    /\ parsed.status = "raised"
    /\ result = ReturnedMaps(<<>>, <<>>)

\* a call that is not silent raised the error of MultiPartParser.parse
C23_WitnessLoud ==
    /\ ParseError
    /\ ~silent
    /\ ErrorSeen
    /\ result = parsed

\* lines fed while the first boundary is awaited: blank ones, the two
\* boundary lines with CRLF, LF or no terminator, boundary lines with other
\* bytes after the token, other lines, and the empty line of the end of the
\* stream
PreTermLines ==
    {BlankLine, <<LF>>, <<CR>>, <<CR, LF, CR, LF>>,
     NextLine, <<DASHES, "B", LF>>, <<DASHES, "B">>,
     LastLine, LastLineLF, LastLineBare,
     <<DASHES, "B", SP, CR, LF>>, <<DASHES, "B", DASHES, TAB, CR, LF>>,
     <<SP, CR, LF>>, <<"xyz", CR, LF>>, FormHeader("a"), <<>>}

\* what a feed in PRE_TERM of a line that is not empty must do: r is the
\* state it left, whether it failed and what it emitted
PreTermStep(line, after, failed, out) ==
    LET stripped == rstrip(line, {CR, LF}) IN
    /\ out = <<>>
    /\ IF stripped = <<>> THEN ~failed /\ after = PRE_TERM
       ELSE IF stripped = <<DASHES>> \o boundary THEN ~failed /\ after = HEADERS
       ELSE IF stripped = <<DASHES>> \o boundary \o <<DASHES>>
       THEN ~failed /\ after = DONE
       ELSE failed

\* the same for every line, the empty one too, which is empty after its
\* trailing CR/LF bytes are removed
PreTermHolds(blank_is_eof) ==
    /\ \A i \in 1..Len(log) :
           (log[i].state = PRE_TERM /\ (blank_is_eof => log[i].line # <<>>))
           => PreTermStep(log[i].line, StateAfter(i), log[i].fail # "", log[i].out)
    /\ (pc = "reading" /\ line_parser._state_enum = PRE_TERM) =>
           \A line \in PreTermLines :
               (blank_is_eof => line # <<>>) =>
                   LET r == LineParser_feed(line_parser, line) IN
                   PreTermStep(line, r.lp._state_enum, r.fail # "", r.out)

\* the empty line that LineSplitter.feed(b"") yields at the end of the stream
\* fails in PRE_TERM and emits nothing
PreTermEOF ==
    /\ \A i \in 1..Len(log) :
           (log[i].state = PRE_TERM /\ log[i].line = <<>>)
           => log[i].fail # "" /\ log[i].out = <<>>
    /\ (pc = "reading" /\ line_parser._state_enum = PRE_TERM) =>
           LET r == LineParser_feed(line_parser, <<>>) IN
           r.fail # "" /\ r.out = <<>>

\* C24 (as the code has it): in PRE_TERM a line that is not empty and is
\* empty after its trailing CR/LF bytes are removed keeps the state
\* PRE_TERM, a line equal to --BOUNDARY moves to HEADERS, one equal to
\* --BOUNDARY-- moves to DONE, any other line that is not blank fails, and so
\* does the empty line that marks the end of the stream; none emits an event
C24_PreTerm == PreTermHolds(TRUE) /\ PreTermEOF

\* C24 as stated: every line that is empty after its trailing CR/LF bytes
\* are removed keeps the state PRE_TERM
C24_PreTermAsStated == PreTermHolds(FALSE)

\* a parse has skipped a blank line and gone on to HEADERS at the boundary
\* line that followed it, and another has failed on a line that is neither
C24_Witness ==
    /\ Len(log) >= 2
    /\ log[1].state = PRE_TERM
    /\ log[1].line = BlankLine
    /\ log[2].state = PRE_TERM
    /\ log[2].line = NextLine
    /\ StateAfter(2) = HEADERS

\* a line without its trailing CRLF or bare LF
StripCRLF(line) ==
    IF LastN(line, 2) = <<CR, LF>> THEN DropLast(line, 2)
    ELSE IF line # <<>> /\ Last(line) = LF THEN DropLast(line, 1)
    ELSE line

\* lines fed in the body of a part: the boundary lines, boundary tokens
\* followed by a space or a tab, and content
OutputLines ==
    {NextLine, <<DASHES, "B", LF>>, LastLine, LastLineLF, PaddedNextLine,
     PaddedLastLine, <<DASHES, "B", TAB, CR, LF>>, <<"x", CR, LF>>, BlankLine}

\* whether a feed yielded the end event
YieldsEnd(out) == out # <<>> /\ out[1].py = "tuple" /\ out[1].ellt = end

\* what a feed in OUTPUT of a line that is not empty must do
OutputStep(line, after, out) ==
    IF StripCRLF(line) = <<DASHES>> \o boundary \o <<DASHES>>
    THEN YieldsEnd(out) /\ after._state_enum = DONE
    ELSE IF StripCRLF(line) = <<DASHES>> \o boundary
    THEN /\ YieldsEnd(out)
         /\ after._state_enum = HEADERS
         /\ after._headers = <<>>
         /\ after._tail = <<>>
    ELSE ~YieldsEnd(out) /\ after._state_enum = OUTPUT

\* C25: in OUTPUT a line ends the part only if, without its trailing CRLF or
\* bare LF, it is exactly --BOUNDARY or --BOUNDARY--; a line with a space or
\* a tab after the boundary token is content and leaves the parser in OUTPUT;
\* the continuation boundary empties the header accumulator and the tail
C25_ExactBoundary ==
    /\ \A i \in 1..Len(log) :
           (log[i].state = OUTPUT /\ log[i].line # <<>> /\ i < Len(log))
           => OutputStep(log[i].line,
                         [_state_enum |-> StateAfter(i), _headers |-> <<>>,
                          _tail |-> <<>>],
                         log[i].out)
    /\ (pc = "reading" /\ line_parser._state_enum = OUTPUT) =>
           \A line \in OutputLines :
               LET r == LineParser_feed(line_parser, line) IN
               OutputStep(line, r.lp, r.out)

\* C26: once the line parser is in DONE, parse_parts issues no further
\* read() on the stream: the count of its reads stays as it is
C26_NoReadsAfterDone ==
    [][line_parser._state_enum = DONE => reads' = reads]_vars

\* C27: when a multipart parse started through FormDataParser.parse returns
\* normally, with the parsed parts or, silent, after an error, the stream has
\* been drained: nothing of it is left and a following read() returns b""
C27_DrainedOnReturn ==
    (ParseFuncRan /\ result.status = "returned") =>
        /\ exhausted
        /\ file = <<>>

\* a silent call returned after an error in the first block of a stream
\* that had more to give
C27_Witness ==
    /\ ParseFuncRan
    /\ silent
    /\ result.status = "returned"
    /\ parsed.status = "raised"
    /\ reads = 1
    /\ cuts = 1
    /\ file = <<>>
    /\ exhausted

\* C28: when a multipart parse started through FormDataParser.parse fails
\* with an error, the stream is not drained after the error: what had not
\* been read when the error was raised is still there
C28_NoDrainAfterError ==
    (ParseFuncRan /\ result.status = "raised") =>
        /\ ~exhausted
        /\ (reads = cuts /\ body # <<>>) => file # <<>>

\* the begin_file events the line parser has yielded, in order
BeginFiles == SelectSeq(Emitted, LAMBDA o : o.py = "tuple" /\ o.ellt = begin_file)

\* the filename parameter of the Content-Disposition header among headers:
\* whether there is one, and its value (None when it has none)
FilenameOption(headers) ==
    DictGet(parse_options_header(Headers_get(headers, <<"content-disposition">>)).options,
            <<"filename">>)
HasFilenameOption(headers) ==
    DictHas(parse_options_header(Headers_get(headers, <<"content-disposition">>)).options,
            <<"filename">>)

RECURSIVE ContentFrom(_, _)
\* the cont payloads that follow one another in events from index j on
ContentFrom(events, j) ==
    IF j > Len(events) \/ events[j].py # "tuple" \/ events[j].ellt # cont
    THEN <<>>
    ELSE events[j].data \o ContentFrom(events, j + 1)

\* the index in Emitted of the k-th begin_file event
BeginFileAt(k) ==
    CHOOSE j \in 1..Len(Emitted) :
        /\ Emitted[j].py = "tuple"
        /\ Emitted[j].ellt = begin_file
        /\ Len(SelectSeq(SubSeq(Emitted, 1, j),
                         LAMBDA o : o.py = "tuple" /\ o.ellt = begin_file)) = k

\* whether the bytes of a file name spell a Windows-like absolute path: the
\* second and third are ":\" (a drive path), or the first two are "\\"
WindowsAbsolute(name) ==
    \/ Len(Joined(name)) >= 3 /\ SubSeq(Joined(name), 2, 3) = ":\\"
    \/ Len(Joined(name)) >= 2 /\ SubSeq(Joined(name), 1, 2) = "\\\\"

\* the file name a FileStorage is to carry for a filename parameter: the
\* parameter unchanged, except that a Windows-like absolute path is reduced
\* to what follows its last backslash
LastComponent(name) ==
    IF WindowsAbsolute(name)
    THEN SubSeq(name, 1 + Max({i \in 1..Len(name) : name[i] = BACKSLASH}), Len(name))
    ELSE name

\* the sink life cycle, given which parts are file parts (has_file, of a
\* begin event's headers) and the file name their FileStorage is to carry
\* (carried, of the filename parameter)
SinkLifeCycle(has_file(_), carried(_)) ==
    /\ \A j \in 1..Len(Emitted) :
           IsBegin(Emitted[j]) =>
               (Emitted[j].ellt = begin_file <=> has_file(Emitted[j].headers))
    /\ Len(sinks) = Len(BeginFiles)
    /\ \A k \in 1..Len(sinks) :
           sinks[k].data = ContentFrom(Emitted, BeginFileAt(k) + 1)
    /\ \A q \in 1..Len(parts) :
           parts[q].kind = "file" =>
               /\ parts[q].stream \in 1..Len(sinks)
               /\ sinks[parts[q].stream].pos = 0
               /\ parts[q].name = BeginFiles[parts[q].stream].name
               /\ parts[q].headers = BeginFiles[parts[q].stream].headers
               /\ parts[q].filename
                      = carried(FilenameOption(BeginFiles[parts[q].stream].headers))
               /\ \A r \in 1..Len(parts) :
                      (parts[r].kind = "file" /\ parts[r].stream = parts[q].stream)
                      => r = q

HasFilenameValue(headers) == FilenameOption(headers) # None
AsItIs(name) == name

\* C29 (as the code has it): the stream factory is called once for each part
\* whose Content-Disposition has a filename parameter with a value, at its
\* begin_file event, and never for another part; the cont payloads of a part
\* are written to its own sink and to no other; at the part's end the sink
\* is at position 0 and goes out with the part's name and headers and with
\* its file name: unchanged, except that a Windows-like absolute path (second
\* and third characters ":\", or a leading "\\") is reduced to what follows
\* its last backslash
C29_SinkLifeCycle == SinkLifeCycle(HasFilenameValue, LastComponent)

\* C29 as stated: a file part is one whose Content-Disposition has a
\* filename parameter, and the FileStorage carries that file name
C29_SinkLifeCycleAsStated == SinkLifeCycle(HasFilenameOption, AsItIs)

\* a parse has handed out three files, each with its own content: the one
\* named by a drive path and the one named by a path that begins with two
\* backslashes carry the last component, the one whose name only holds a
\* backslash carries its name unchanged
C29_Witness ==
    /\ pc = "done"
    /\ parsed.status = "returned"
    /\ Len(parts) = 3
    /\ Len(sinks) = 3
    /\ \A q \in 1..3 : parts[q].kind = "file" /\ parts[q].stream = q
                         /\ sinks[q].pos = 0
    /\ FilenameOption(parts[1].headers) = <<"C", COLON, BACKSLASH, "d", BACKSLASH, "f">>
    /\ parts[1].filename = <<"f">>
    /\ FilenameOption(parts[2].headers) = <<"d", BACKSLASH, "f">>
    /\ parts[2].filename = <<"d", BACKSLASH, "f">>
    /\ FilenameOption(parts[3].headers)
           = <<BACKSLASH, BACKSLASH, "h", BACKSLASH, "g">>
    /\ parts[3].filename = <<"g">>
    /\ sinks[1].data = <<"x">>
    /\ sinks[2].data = <<"hello">>
    /\ sinks[3].data = <<"y">>
    /\ cuts = 1

\* whether a part with this header line and content is within the ceiling:
\* a file always, a form field when its content is no longer
WithinCeiling(h, c) ==
    h = FormHeader("a") => Len(c) <= max_form_memory_size

\* C30: a body in which the content of every non-file part is at most
\* max_form_memory_size bytes does not make the parse raise
\* RequestEntityTooLarge, however many parts it has and however many bytes
\* go to file sinks
C30_PerPartCeiling ==
    \A h1 \in MemoryHeaders, h2 \in MemoryHeaders,
       c1 \in MemoryContents, c2 \in MemoryContents :
        (/\ body = MemoryBody(h1, c1, h2, c2)
         /\ max_form_memory_size # NoLimit
         /\ WithinCeiling(h1, c1)
         /\ WithinCeiling(h2, c2)
         /\ pc = "done")
        => ~(result.status = "raised" /\ result.exc.type = "RequestEntityTooLarge")

\* all bytes fed to the splitter, and all bytes of the lines it yielded
BytesFed == Concat([i \in 1..Len(feeds) |-> feeds[i].input])
BytesYielded == Concat([i \in 1..Len(feeds) |-> Concat(feeds[i].lines)])

\* every call of feed so far was run to its end by its consumer
RunToEnd == \A i \in 1..Len(feeds) : feeds[i].status = "exhausted"

\* the calls so far are feeds of chunks followed by one flush, each run to
\* its end
EndedByFlush ==
    /\ feeds # <<>>
    /\ RunToEnd
    /\ \A i \in 1..Len(feeds) : (feeds[i].input = <<>>) <=> (i = Len(feeds))

\* C31: for a LineSplitter without a cap the leftover buffer is empty after
\* a feed whose input ends with a line terminator, and after feeds of
\* chunks followed by one flush the lines yielded, put together, are the
\* chunks put together (every call being run to its end)
C31_Conservation ==
    splitter.cap = 0 =>
        /\ (feeds # <<>> /\ RunToEnd /\ Last(feeds).input # <<>>
            /\ Last(Last(feeds).input) = LF)
           => splitter._leftover_buffer = <<>>
        /\ EndedByFlush => BytesYielded = BytesFed

\* a is the beginning of b
StartsWith(b, a) == Len(a) =< Len(b) /\ SubSeq(b, 1, Len(a)) = a

\* the call i of feed was a flush that emitted a pending leftover
FlushedLeftover(i) ==
    /\ feeds[i].input = <<>>
    /\ NonEmpty(feeds[i].lines) # <<>>

\* C32: once feed(b"") has emitted the pending leftover as a line, that
\* leftover is not emitted again: a flush that follows directly emits no
\* byte, and a feed that follows directly emits bytes of its own input only
\* (every call being run to its end).
C32_FlushOnce ==
    (splitter.cap = 0 /\ RunToEnd) =>
        \A i \in 1..Len(feeds) - 1 :
            FlushedLeftover(i) =>
                StartsWith(feeds[i + 1].input, Concat(feeds[i + 1].lines))

\* every line yielded by the calls of feed so far, in order, each with the
\* input of the call it came from
LinesYielded ==
    Concat([i \in 1..Len(feeds) |->
            [k \in 1..Len(feeds[i].lines) |->
             [line |-> feeds[i].lines[k], input |-> feeds[i].input]]])

\* line ends with \n (alone or after \r) and holds no \n before its end
WholeLine(line) ==
    /\ line # <<>>
    /\ Last(line) = LF
    /\ \A k \in 1..Len(line) - 1 : line[k] # LF

\* C33: without a cap every line yielded by a non-empty feed ends with its
\* complete terminator and has no terminator before its end, and no line
\* ending in \r is followed by a line that is the \n alone.
C33_WholeTerminators ==
    splitter.cap = 0 =>
        /\ \A n \in 1..Len(LinesYielded) :
               LinesYielded[n].input # <<>> => WholeLine(LinesYielded[n].line)
        /\ \A n \in 1..Len(LinesYielded) - 1 :
               ~ /\ LinesYielded[n].line # <<>>
                 /\ Last(LinesYielded[n].line) = CR
                 /\ LinesYielded[n + 1].line = <<LF>>

\* C34: with a cap no yielded line is longer than cap bytes, and over feeds
\* ended by one flush the yielded lines put together are exactly the bytes
\* fed: what remains after cutting at the cap is carried to the next feed.
C34_CappedConservation ==
    splitter.cap # 0 =>
        /\ \A n \in 1..Len(LinesYielded) :
               ByteLen(LinesYielded[n].line) =< splitter.cap
        /\ EndedByFlush => BytesYielded = BytesFed

\* pairs holds a pair for key
HoldsKey(pairs, key) == \E i \in 1..Len(pairs) : pairs[i][1] = key

\* pairs with the one pair (key, value) where the first pair for key was and
\* no other pair for key, or with the pair at the end if there was none
SetInPlace(pairs, key, value) ==
    IF HoldsKey(pairs, key)
    THEN LET first == CHOOSE i \in 1..Len(pairs) :
                          /\ pairs[i][1] = key
                          /\ \A j \in 1..i - 1 : pairs[j][1] # key
         IN SubSeq(pairs, 1, first - 1)
            \o <<<<key, value>>>>
            \o SelectSeq(SubSeq(pairs, first + 1, Len(pairs)), LAMBDA p : p[1] # key)
    ELSE Append(pairs, <<key, value>>)

\* C35: after d[key] = value the dict holds one pair for key, where the first
\* pair for key was in items(multi=True), with the pairs of the other keys in
\* their order; the pair is appended if key was absent.
C35_SetKeepsPosition ==
    (omd_calls # <<>> /\ Last(omd_calls).op = "__setitem__")
    => OrderedMultiDict_items(omd, TRUE)
       = SetInPlace(Last(omd_calls).before, Last(omd_calls).key,
                    Last(omd_calls).value[1])

\* only add, pop and poplist have been called
PlainCalls ==
    \A i \in 1..Len(omd_calls) : omd_calls[i].op \in {"add", "pop", "poplist"}

RECURSIVE Remaining(_)
\* the pairs added and not popped since, in the order they were added, after
\* the first n calls
Remaining(n) ==
    IF n = 0 THEN omd_calls[1].before
    ELSE IF omd_calls[n].op = "add"
         THEN Append(Remaining(n - 1), <<omd_calls[n].key, omd_calls[n].value[1]>>)
         ELSE SelectSeq(Remaining(n - 1), LAMBDA p : p[1] # omd_calls[n].key)

RECURSIVE FirstOfEachKey(_)
\* the pairs that are the first of their key
FirstOfEachKey(pairs) ==
    IF pairs = <<>> THEN <<>>
    ELSE IF HoldsKey(DropLast(pairs, 1), Last(pairs)[1])
         THEN FirstOfEachKey(DropLast(pairs, 1))
         ELSE Append(FirstOfEachKey(DropLast(pairs, 1)), Last(pairs))

\* C36: after add, pop and poplist calls items(multi=True) gives the remaining
\* pairs, each once, in the order they were added, and items() gives each key
\* once, where its first remaining pair is and with that pair's value.
C36_IterationOrder ==
    (omd_calls # <<>> /\ PlainCalls)
    => /\ OrderedMultiDict_items(omd, TRUE) = Remaining(Len(omd_calls))
       /\ OrderedMultiDict_items(omd, FALSE)
          = FirstOfEachKey(Remaining(Len(omd_calls)))

\* pairs were added and a key between others was popped, and a key with two
\* pairs remains
C36_Witness ==
    /\ PlainCalls
    /\ \E i, j \in 1..Len(omd_calls) :
           /\ omd_calls[i].op = "add"
           /\ omd_calls[j].op \in {"pop", "poplist"}
           /\ omd_calls[j].raised = ""
           /\ Len(omd_calls[j].before) = 4
           /\ omd_calls[j].before[1][1] # omd_calls[j].key
           /\ omd_calls[j].before[2][1] = omd_calls[j].key
    /\ Len(OrderedMultiDict_items(omd, TRUE)) > Len(OrderedMultiDict_items(omd, FALSE))

\* the buckets stored in the per-key lists of the dict
StoredBuckets ==
    UNION {{omd.dict[i].buckets[k] : k \in 1..Len(omd.dict[i].buckets)} :
           i \in 1..Len(omd.dict)}

\* the buckets reached from _first_bucket through next
ChainBuckets == chain(omd, omd._first_bucket)

\* the values of key in items(multi=True), in order
ListedFor(key) ==
    [i \in 1..Len(SelectSeq(OrderedMultiDict_items(omd, TRUE),
                            LAMBDA p : p[1] = key)) |->
     SelectSeq(OrderedMultiDict_items(omd, TRUE), LAMBDA p : p[1] = key)[i][2]]

\* C39: the chain from _first_bucket through next holds exactly the buckets
\* stored in the dict, each once; _last_bucket is the last of the chain and
\* both ends are None for an empty dict; prev and next of neighbours agree; so
\* items(multi=True) and getlist give the same values for every key.
C39_ChainConsistency ==
    /\ {ChainBuckets[i] : i \in 1..Len(ChainBuckets)} = StoredBuckets
    /\ Len(ChainBuckets) = Cardinality(StoredBuckets)
    /\ omd._last_bucket
       = IF ChainBuckets = <<>> THEN NoBucket ELSE Last(ChainBuckets)
    /\ omd.dict = <<>> => omd._first_bucket = NoBucket /\ omd._last_bucket = NoBucket
    /\ \A i \in 1..Len(ChainBuckets) - 1 :
           omd.buckets[ChainBuckets[i + 1]].prev = ChainBuckets[i]
    /\ \A key \in OmdKeys :
           OrderedMultiDict_getlist(omd, key)
           = OmdResult(omd, ListedFor(key), "")

\* C40: _set is the set of the lower-cased items of _headers and no two items
\* of _headers are equal ignoring case, so len(), membership and iteration
\* describe the same elements.
C40_SetConsistency ==
    /\ header_set._set
       = {lower(header_set._headers[i]) : i \in 1..Len(header_set._headers)}
    /\ \A i, j \in 1..Len(header_set._headers) :
           lower(header_set._headers[i]) = lower(header_set._headers[j]) => i = j
    /\ HeaderSet_len(header_set) = Len(HeaderSet_iter(header_set))

\* the round in which file.read returns b""
EmptyRead == pc = "reading" /\ file = <<>> /\ reads' = reads + 1

\* parse has returned or raised: no read, no feed of the splitter
ParseOver == pc = "done"

\* C38: for a stream whose read() comes to return b"" the parse returns or
\* raises in the end; the round of the first empty read, which flushes the
\* splitter, is the last one: no read and no feed follow it.
C38_Termination ==
    /\ <>ParseOver
    /\ [][EmptyRead => ParseOver']_vars
    /\ [][ParseOver => reads' = reads /\ line_splitter' = line_splitter /\ log' = log]_vars

\* a parse that went through several reads, the last of them empty, returned
\* its containers
C38_Witness ==
    /\ ParseOver
    /\ reads > 2
    /\ file = <<>>
    /\ parsed.status = "returned"
    /\ parsed.form # <<>>

RECURSIVE PartsOf(_)
\* the parts a sequence of events describes: the begin event of each, the
\* cont payloads that follow it put together, and whether its end came
PartsOf(events) ==
    IF events = <<>> THEN <<>>
    ELSE IF Last(events).ellt \in {begin_form, begin_file}
    THEN Append(PartsOf(DropLast(events, 1)),
                [begin |-> Last(events), data |-> <<>>, ended |-> FALSE])
    ELSE IF PartsOf(DropLast(events, 1)) = <<>> THEN <<>>
    ELSE IF Last(events).ellt = cont
    THEN [PartsOf(DropLast(events, 1))
          EXCEPT ![Len(PartsOf(DropLast(events, 1)))].data = @ \o Last(events).data]
    ELSE [PartsOf(DropLast(events, 1))
          EXCEPT ![Len(PartsOf(DropLast(events, 1)))].ended = TRUE]

\* two runs give the same parts: the same begin events in the same order,
\* the same parts ended, the same content for every part that ended
SameParts(a, b) ==
    /\ Len(PartsOf(a)) = Len(PartsOf(b))
    /\ \A k \in 1..Len(PartsOf(a)) :
           /\ k <= Len(PartsOf(b))
           /\ PartsOf(a)[k].begin = PartsOf(b)[k].begin
           /\ PartsOf(a)[k].ended = PartsOf(b)[k].ended
           /\ PartsOf(a)[k].ended =>
                  Joined(PartsOf(a)[k].data) = Joined(PartsOf(b)[k].data)

\* C37: for the same lines a LineParser yields the begin and end events of
\* parse_lines, with the same headers, name and filename and in the same
\* order, the content of every part is the same, and one fails when the
\* other does.
C37_Refinement ==
    refinement # <<>> =>
        /\ SameParts(refinement[1].events, refinement[2].events)
        /\ (refinement[1].fail = "") <=> (refinement[2].fail = "")

====
